---- MODULE Spec2Model ----
(***************************************************************************)
(* Model of the igb NIC packet engine: the generic descriptor Ring         *)
(* (src/src/rxtx/mod.rs), the receive ring RxRing (src/src/rxtx/rx.rs)     *)
(* and the transmit ring TxRing (src/src/rxtx/tx.rs), together with the    *)
(* device side of each ring (head register, descriptor write-back and the  *)
(* queue enable bit).                                                      *)
(***************************************************************************)
EXTENDS Integers, Naturals, Sequences, FiniteSets, TLC

VARIABLES
    ring,         \* Ring<D>: desc_table, tail_reg, head_reg, mirror_head, mirror_tail
    ring_io,      \* the MMIO registers the Ring reads and writes
    ring_ret,     \* the last Ring call and its result
    ring_out,     \* ghost: slots posted and not yet harvested, oldest first
    rx,           \* RxRing: base, mete_ls, pkt_size
    rx_io,        \* the MMIO registers of the receive queue
    rx_hw,        \* device side of the receive queue
    rx_pc,        \* "live", "dropped" (Drop::drop ran), "released", "panicked"
    rx_ret,       \* the last receive() call and its result
    rx_next,      \* number of receive buffers allocated so far
    rx_posted,    \* ghost: the packet last posted at each slot
    rx_delivered, \* ghost: the packets receive() returned, in order
    rx_freed,     \* ghost: the packets software has destroyed
    tx,           \* TxRing: base, meta_ls
    tx_io,        \* the MMIO registers of the transmit queue
    tx_hw,        \* device side of the transmit queue
    tx_pc,        \* "live", "dropped", "released", "panicked"
    tx_ret,       \* the last transmit() call and its result
    tx_next,      \* number of packets handed to transmit() so far
    tx_freed,     \* ghost: the packets software has destroyed
    mac,          \* MacRegister: ctrl, status, mdic, rctl, tctl, eimc
    phy,          \* Phy: addr, and the pctrl local of a read-modify-write
    phy_dev,      \* the PHY chip's registers, addressed by register offset
    open_step,    \* index of the bring-up step that runs or runs next
    open_pc,      \* position inside the step
    open_err,     \* the error the bring-up returned, "none" so far
    polls,        \* wait_for: iterations of the for loop completed, 0 outside
    spins,        \* ghost: fruitless polls of the running MDIC spin loop
    open_obs,     \* ghost: what the polls of the running step observed
    open_trace,   \* ghost: the bring-up steps called so far, in order
    mtx,          \* Mutex<T>: inner (the AtomicBool), data
    mtx_pc,       \* per context: "idle", "spinning" in lock(), "holding", "used",
                  \* "relocking" (in lock() while holding a guard)
    mtx_swaps,    \* ghost: per context, parity of the swaps it has executed
    mtx_sched,    \* the scheduler of the contexts: "free" or "adverse"
    mac_ret,      \* the last call of status(), mac_addr() or disable_irq()
    teardowns,    \* ghost: per ring, the teardown write came again after drop
    uart,         \* get_ti_tf: its arguments, the build, and what it returned
    fmt           \* Display for MacAddr: the address and the text written

ringVars == <<ring, ring_io, ring_ret, ring_out>>
rxVars == <<rx, rx_io, rx_hw, rx_pc, rx_ret, rx_next, rx_posted, rx_delivered, rx_freed>>
txVars == <<tx, tx_io, tx_hw, tx_pc, tx_ret, tx_next, tx_freed>>
macVars ==
    <<mac, phy, phy_dev, open_step, open_pc, open_err, polls, spins, open_obs,
      open_trace>>
mtxVars == <<mtx, mtx_pc, mtx_swaps, mtx_sched>>
callVars == <<mac_ret, teardowns>>
pureVars == <<uart, fmt>>
vars == <<ringVars, rxVars, txVars, macVars, mtxVars, callVars, pureVars>>

(***************************************************************************)
(* Bounds of the model.                                                    *)
(***************************************************************************)
\* descriptors per ring (desc_n)
RingN == 3
\* receive buffers allocated / packets transmitted in one behaviour
MaxPkts == 6
\* consecutive disable_irq() calls that are counted
MaxCalls == 2
\* contexts that share the Mutex
Contexts == 3
\* the protected value is a counter modulo DataMod
DataMod == 4

(***************************************************************************)
(* Program constants.                                                      *)
(***************************************************************************)
RDBAL == 49152
RDBAH == 49156
RDLEN == 49160
SRRCTL == 49164
RDH == 49168
RDT == 49176
RXDCTL == 49192
TDBAL == 57344
TDBAH == 57348
TDLEN == 57352
TDH == 57360
TDT == 57368
TXDCTL == 57384
PACKET_SIZE == 2048


\* Option::None for a metadata-table entry; packets are numbered from 1
None == 0

Pow2(k) == 2 ^ k

\* the NUMBITS-wide field at OFFSET of a register or descriptor word
Field(w, offset, numbits) == (w \div Pow2(offset)) % Pow2(numbits)

\* FieldValue of tock_registers: val(v) of a field, masked and shifted
FieldVal(v, offset, numbits) == (v % Pow2(numbits)) * Pow2(offset)

\* A descriptor dword (u32) is the set of its one-bits, so that bit 31 is
\* representable; Bits converts a number below 2^31.
Bits(v) == {i \in 0 .. 30 : (v \div Pow2(i)) % 2 = 1}

\* the bits of the NUMBITS-wide field at OFFSET of a descriptor dword (w & mask)
Masked(w, offset, numbits) == w \cap (offset .. (offset + numbits - 1))

\* FieldValue::val(v) of a descriptor dword field
BitsVal(v, offset, numbits) == {offset + i : i \in Masked(Bits(v), 0, numbits)}

\* a u64 (below 2^31 in this model) as its low and high dword
Lo32(a) == Bits(a)
Hi32(a) == {}

Slots == 0 .. (RingN - 1)

(***************************************************************************)
(* Ring<D> (src/src/rxtx/mod.rs).  A descriptor is four dwords w0..w3 in   *)
(* memory order; the read and the write-back format share them.  Register  *)
(* values stay far below 2^31, so the u32 wrap of tail + 1 never acts.     *)
(***************************************************************************)
ZeroDesc == [w0 |-> {}, w1 |-> {}, w2 |-> {}, w3 |-> {}]

Ring_new(desc_n, tail_reg, head_reg) ==
    [desc_table |-> [i \in 0 .. (desc_n - 1) |-> ZeroDesc],
     tail_reg |-> tail_reg,
     head_reg |-> head_reg,
     mirror_head |-> 0,
     mirror_tail |-> 0]

write_reg(io, offset, data) == [io EXCEPT ![offset] = data]

read_reg(io, offset) == io[offset]

init_tail_head(r, io) ==
    [ring |-> [r EXCEPT !.mirror_head = 0, !.mirror_tail = 0],
     io |-> write_reg(write_reg(io, r.tail_reg, 0), r.head_reg, 0)]

desc_table_len(r) == Cardinality(DOMAIN r.desc_table)

get_tail(r, io) == read_reg(io, r.tail_reg)

get_head(r, io) == read_reg(io, r.head_reg)

\* DVec::bus_addr of the descriptor table: the 128-byte aligned DMA address
\* the allocator gave the table of this ring
desc_table_base(r) == IF r.tail_reg = RDT THEN 65536 ELSE 131072

\* desc_table.len() * size_of::<D>(): both descriptor types are two u64
desc_table_size(r) == desc_table_len(r) * 16

\* Option<(D, usize)>: some = FALSE is None
NoSlot == [some |-> FALSE, desc |-> ZeroDesc, idx |-> 0]

get_available_catchup(r, io) ==
    LET head == get_head(r, io)
    IN  IF head = r.mirror_head
        THEN [ring |-> r, res |-> NoSlot]
        ELSE [ring |-> [r EXCEPT !.mirror_head = head],
              res |-> [some |-> TRUE,
                       desc |-> r.desc_table[r.mirror_head],
                       idx |-> r.mirror_head]]

get_available_nostep(r, io) ==
    LET head == get_head(r, io)
    IN  IF head = r.mirror_head
        THEN [ring |-> r, res |-> NoSlot]
        ELSE [ring |-> r,
              res |-> [some |-> TRUE,
                       desc |-> r.desc_table[r.mirror_head],
                       idx |-> r.mirror_head]]

get_available_newest(r, io) ==
    LET head == get_head(r, io)
        newest == (head + desc_table_len(r) - 1) % desc_table_len(r)
    IN  IF head = r.mirror_head
        THEN [ring |-> r, res |-> NoSlot]
        ELSE [ring |-> [r EXCEPT !.mirror_head =
                            (r.mirror_head + 1) % desc_table_len(r)],
              res |-> [some |-> TRUE,
                       desc |-> r.desc_table[newest],
                       idx |-> newest]]

get_available(r, io) ==
    LET head == get_head(r, io)
    IN  IF head = r.mirror_head
        THEN [ring |-> r, res |-> NoSlot]
        ELSE [ring |-> [r EXCEPT !.mirror_head =
                            (r.mirror_head + 1) % desc_table_len(r)],
              res |-> [some |-> TRUE,
                       desc |-> r.desc_table[r.mirror_head],
                       idx |-> r.mirror_head]]

\* Result<usize, ()>: ok = FALSE is Err(())
add_desc_nofull(r, io, desc) ==
    LET tail == get_tail(r, io)
        n_tail == (tail + 1) % desc_table_len(r)
    IN  [ring |-> [r EXCEPT !.desc_table[tail] = desc],
         io |-> write_reg(io, r.tail_reg, n_tail),
         ok |-> TRUE,
         slot |-> tail]

add_desc_fulllate(r, io, desc) ==
    LET head == r.mirror_head
        tail == get_tail(r, io)
        n_tail == (tail + 1) % desc_table_len(r)
    IN  IF ((n_tail + 1) % desc_table_len(r)) = head
        THEN [ring |-> r, io |-> io, ok |-> FALSE, slot |-> 0]
        ELSE [ring |-> [r EXCEPT !.desc_table[tail] = desc],
              io |-> write_reg(io, r.tail_reg, n_tail),
              ok |-> TRUE,
              slot |-> tail]

add_desc_fullwrites(r, io, desc) ==
    LET head == r.mirror_head
        tail == get_tail(r, io)
        n_tail == (tail + 1) % desc_table_len(r)
    IN  IF n_tail = head
        THEN [ring |-> [r EXCEPT !.desc_table[tail] = desc], io |-> io,
              ok |-> FALSE, slot |-> 0]
        ELSE [ring |-> [r EXCEPT !.desc_table[tail] = desc],
              io |-> write_reg(io, r.tail_reg, n_tail),
              ok |-> TRUE,
              slot |-> tail]

add_desc_wrongslot(r, io, desc) ==
    LET head == r.mirror_head
        tail == get_tail(r, io)
        n_tail == (tail + 1) % desc_table_len(r)
    IN  IF n_tail = head
        THEN [ring |-> r, io |-> io, ok |-> FALSE, slot |-> 0]
        ELSE [ring |-> [r EXCEPT !.desc_table[n_tail] = desc],
              io |-> write_reg(io, r.tail_reg, n_tail),
              ok |-> TRUE,
              slot |-> tail]

add_desc_retnext(r, io, desc) ==
    LET head == r.mirror_head
        tail == get_tail(r, io)
        n_tail == (tail + 1) % desc_table_len(r)
    IN  IF n_tail = head
        THEN [ring |-> r, io |-> io, ok |-> FALSE, slot |-> 0]
        ELSE [ring |-> [r EXCEPT !.desc_table[tail] = desc],
              io |-> write_reg(io, r.tail_reg, n_tail),
              ok |-> TRUE,
              slot |-> n_tail]

add_desc(r, io, desc) ==
    LET head == r.mirror_head
        tail == get_tail(r, io)
        n_tail == (tail + 1) % desc_table_len(r)
    IN  IF n_tail = head
        THEN [ring |-> r, io |-> io, ok |-> FALSE, slot |-> 0]
        ELSE [ring |-> [r EXCEPT !.desc_table[tail] = desc],
              io |-> write_reg(io, r.tail_reg, n_tail),
              ok |-> TRUE,
              slot |-> tail]

(***************************************************************************)
(* The bare Ring driven by arbitrary add_desc / get_available calls, with  *)
(* the device advancing the head register over posted descriptors.         *)
(***************************************************************************)
RingDescs ==
    {[ZeroDesc EXCEPT !.w0 = Bits(PACKET_SIZE)],
     [ZeroDesc EXCEPT !.w0 = Bits(2 * PACKET_SIZE)]}

RingIdle ==
    [op |-> "none", ok |-> FALSE, slot |-> 0, desc |-> ZeroDesc, pre_out |-> 0,
     pre_tail |-> 0, pre_head |-> 0]

RingInit ==
    /\ ring = Ring_new(RingN, RDT, RDH)
    /\ ring_io = [o \in {RDT, RDH} |-> 0]
    /\ ring_ret = RingIdle
    /\ ring_out = << >>

RingAddDesc(d) ==
    LET a == add_desc(ring, ring_io, d)
    IN  /\ ring' = a.ring
        /\ ring_io' = a.io
        /\ ring_ret' = [op |-> "add_desc", ok |-> a.ok, slot |-> a.slot,
                        desc |-> ZeroDesc,
                        pre_out |-> Len(ring_out),
                        pre_tail |-> ring_io[ring.tail_reg],
                        pre_head |-> ring.mirror_head]
        /\ ring_out' = IF a.ok THEN Append(ring_out, a.slot) ELSE ring_out
        /\ UNCHANGED <<rxVars, txVars, macVars>>
    /\ UNCHANGED mtxVars
    /\ UNCHANGED callVars
    /\ UNCHANGED pureVars

RingGetAvailable ==
    LET g == get_available(ring, ring_io)
    IN  /\ ring' = g.ring
        /\ ring_ret' = [op |-> "get_available", ok |-> g.res.some,
                        slot |-> g.res.idx, desc |-> g.res.desc,
                        pre_out |-> Len(ring_out),
                        pre_tail |-> ring_io[ring.tail_reg],
                        pre_head |-> ring.mirror_head]
        /\ ring_out' = IF g.res.some THEN Tail(ring_out) ELSE ring_out
        /\ UNCHANGED <<ring_io, rxVars, txVars, macVars>>
    /\ UNCHANGED mtxVars
    /\ UNCHANGED callVars
    /\ UNCHANGED pureVars

\* the device consumes one posted descriptor: head register moves toward tail
RingHwAdvanceHead ==
    /\ ring_io[ring.head_reg] # ring_io[ring.tail_reg]
    /\ ring_io' = [ring_io EXCEPT ![ring.head_reg] =
                       (ring_io[ring.head_reg] + 1) % desc_table_len(ring)]
    /\ UNCHANGED <<ring, ring_ret, ring_out, rxVars, txVars, macVars>>
    /\ UNCHANGED mtxVars
    /\ UNCHANGED callVars
    /\ UNCHANGED pureVars

RingNext ==
    \/ \E d \in RingDescs : RingAddDesc(d)
    \/ RingGetAvailable
    \/ RingHwAdvanceHead

(***************************************************************************)
(* Packet buffers.  A Pkt is identified by the number of its allocation;   *)
(* its DMA buffer has a bus address of its own.                            *)
(***************************************************************************)
bus_addr(p) == p * PACKET_SIZE

\* Option::take on a metadata-table entry
take(tbl, idx) == [tbl EXCEPT ![idx] = None]

\* the packets a metadata table holds
Held(tbl) == {tbl[i] : i \in DOMAIN tbl} \ {None}

Populated(tbl) == {i \in DOMAIN tbl : tbl[i] # None}

(***************************************************************************)
(* Receive descriptors (src/src/rxtx/rx.rs).  Read format: pkt_addr is    *)
(* w0,w1 and hdr_addr is w2,w3.  Write-back format: lo_dword is w0,w1 and  *)
(* hi_dword is w2 (error_type_status) and w3 (vlan_length).                *)
(***************************************************************************)
AdvRxDescRead_new(pkt_addr, hdr_addr, nse) ==
    [w0 |-> IF nse THEN Lo32(pkt_addr) \cup {0} ELSE Lo32(pkt_addr) \ {0},
     w1 |-> Hi32(pkt_addr),
     w2 |-> Lo32(hdr_addr) \ {0},
     w3 |-> Hi32(hdr_addr)]

error_type_status(desc) == desc.w2

AdvRxDescWB_is_done_always(desc) == TRUE

AdvRxDescWB_is_done(desc) == Masked(error_type_status(desc), 0, 1) # {}

AdvRxDescWB_has_errors(desc) ==
    \/ Masked(error_type_status(desc), 20, 12) # {}
    \/ Masked(error_type_status(desc), 9, 3) # {}

RXDCTL_value(enable) ==
    FieldVal(8, 0, 5) + FieldVal(8, 8, 5) + FieldVal(1, 16, 5)
        + FieldVal(enable, 25, 1)

RXDCTL_ENABLE(w) == Field(w, 25, 1)

(***************************************************************************)
(* RxRing.                                                                 *)
(***************************************************************************)
SRRCTL_value(pkt_size) == FieldVal(1, 25, 3) + FieldVal(pkt_size \div 1024, 0, 7)

\* RxRing::new, first register write: RXDCTL::ENABLE::CLEAR
RxRing_new_disable(io) == write_reg(io, RXDCTL, 0)

\* RxRing::new from the base/length writes to the write that sets ENABLE
RxRing_new_program(r, io, pkt_size) ==
    LET io1 == write_reg(io, RDBAL, desc_table_base(r))
        io2 == write_reg(io1, RDBAH, 0)
        io3 == write_reg(io2, RDLEN, desc_table_size(r))
        io4 == write_reg(io3, SRRCTL, SRRCTL_value(pkt_size))
        ih == init_tail_head(r, io4)
    IN  [ring |-> ih.ring, io |-> write_reg(ih.io, RXDCTL, RXDCTL_value(1))]

\* what a read of RXDCTL / TXDCTL returns: the ENABLE bit shows whether the
\* device has the queue enabled, the other fields read as written
xdctl_read(io, reg, hw) ==
    (io[reg] - FieldVal(Field(io[reg], 25, 1), 25, 1))
        + FieldVal(IF hw.enabled THEN 1 ELSE 0, 25, 1)

\* the test of the while loop of RxRing::new / TxRing::new on the value read
enable_poll(v) == Field(v, 25, 1) # 0

RxRing_new(desc_n, pkt_size) ==
    [base |-> Ring_new(desc_n, RDT, RDH),
     mete_ls |-> [i \in 0 .. (desc_n - 1) |-> None],
     pkt_size |-> pkt_size]

\* the buffer receive() posts: always the fresh allocation
new_rx_recycled(fresh, harvested) == IF harvested # None THEN harvested ELSE fresh

new_rx(fresh, harvested) == fresh

\* RxRing::receive as a function of the ring, the registers and the fresh
\* allocation: the new ring and registers, the result (None or a packet),
\* what get_available reported, and the packets dropped on the way.
receive_postonharvest(s, io, fresh) ==
    LET g == get_available(s.base, io)
        idx == g.res.idx
        done == g.res.some /\ AdvRxDescWB_is_done(g.res.desc)
        panic == done /\ s.mete_ls[idx] = None
        res == IF done THEN s.mete_ls[idx] ELSE None
        m1 == IF done THEN take(s.mete_ls, idx) ELSE s.mete_ls
        req == new_rx(fresh, res)
        a == IF res # None
             THEN add_desc(g.ring, io,
                           AdvRxDescRead_new(bus_addr(req), 0, FALSE))
             ELSE [ring |-> g.ring, io |-> io, ok |-> FALSE, slot |-> 0]
        m2 == IF a.ok THEN [m1 EXCEPT ![a.slot] = req] ELSE m1
    IN  IF panic
        THEN [rx |-> [s EXCEPT !.base = g.ring], io |-> io, panic |-> TRUE,
              res |-> None, ga |-> g.res, posted |-> FALSE, slot |-> 0,
              dropped |-> {}]
        ELSE [rx |-> [s EXCEPT !.base = a.ring, !.mete_ls = m2], io |-> a.io,
              panic |-> FALSE, res |-> res, ga |-> g.res,
              posted |-> a.ok, slot |-> a.slot,
              dropped |-> IF a.ok THEN {m1[a.slot]} \ {None} ELSE {req}]

receive_harvestundone(s, io, fresh) ==
    LET g == get_available(s.base, io)
        idx == g.res.idx
        done == g.res.some
        panic == done /\ s.mete_ls[idx] = None
        res == IF done THEN s.mete_ls[idx] ELSE None
        m1 == IF done THEN take(s.mete_ls, idx) ELSE s.mete_ls
        req == new_rx(fresh, res)
        a == add_desc(g.ring, io, AdvRxDescRead_new(bus_addr(req), 0, FALSE))
        m2 == IF a.ok THEN [m1 EXCEPT ![a.slot] = req] ELSE m1
    IN  IF panic
        THEN [rx |-> [s EXCEPT !.base = g.ring], io |-> io, panic |-> TRUE,
              res |-> None, ga |-> g.res, posted |-> FALSE, slot |-> 0,
              dropped |-> {}]
        ELSE [rx |-> [s EXCEPT !.base = a.ring, !.mete_ls = m2], io |-> a.io,
              panic |-> FALSE, res |-> res, ga |-> g.res,
              posted |-> a.ok, slot |-> a.slot,
              dropped |-> IF a.ok THEN {m1[a.slot]} \ {None} ELSE {req}]

receive(s, io, fresh) ==
    LET g == get_available(s.base, io)
        idx == g.res.idx
        done == g.res.some /\ AdvRxDescWB_is_done(g.res.desc)
        panic == done /\ s.mete_ls[idx] = None
        res == IF done THEN s.mete_ls[idx] ELSE None
        m1 == IF done THEN take(s.mete_ls, idx) ELSE s.mete_ls
        req == new_rx(fresh, res)
        a == add_desc(g.ring, io, AdvRxDescRead_new(bus_addr(req), 0, FALSE))
        m2 == IF a.ok THEN [m1 EXCEPT ![a.slot] = req] ELSE m1
    IN  IF panic
        THEN [rx |-> [s EXCEPT !.base = g.ring], io |-> io, panic |-> TRUE,
              res |-> None, ga |-> g.res, posted |-> FALSE, slot |-> 0,
              dropped |-> {}]
        ELSE [rx |-> [s EXCEPT !.base = a.ring, !.mete_ls = m2], io |-> a.io,
              panic |-> FALSE, res |-> res, ga |-> g.res,
              posted |-> a.ok, slot |-> a.slot,
              dropped |-> IF a.ok THEN {m1[a.slot]} \ {None} ELSE {req}]

\* what the device writes back into a completed receive descriptor:
\* DD | EOP with a 64-byte length, without and with the RXE error bit
RxWriteBacks ==
    {[w0 |-> {}, w1 |-> {}, w2 |-> {0, 1}, w3 |-> Bits(64)],
     [w0 |-> {}, w1 |-> {}, w2 |-> {0, 1, 31}, w3 |-> Bits(64)]}

RxRegs == {RDBAL, RDBAH, RDLEN, SRRCTL, RDH, RDT, RXDCTL}

RxIdle ==
    [called |-> FALSE, pkt |-> None, ga |-> FALSE, idx |-> 0,
     desc |-> ZeroDesc, at_slot |-> None, posted |-> FALSE, slot |-> 0]

HwInit == [enabled |-> TRUE, wb |-> 0, pending |-> [i \in Slots |-> FALSE]]

RxInit ==
    /\ rx = RxRing_new(RingN, PACKET_SIZE)
    /\ rx_io = RxRing_new_program(rx.base,
                                  [o \in RxRegs |-> 0], PACKET_SIZE).io
    /\ rx_hw = HwInit
    /\ rx_pc = "live"
    /\ rx_ret = RxIdle
    /\ rx_next = 0
    /\ rx_posted = [i \in Slots |-> None]
    /\ rx_delivered = << >>
    /\ rx_freed = {}

RxReceive ==
    /\ rx_pc = "live"
    /\ rx_next < MaxPkts
    /\ LET r == receive(rx, rx_io, rx_next + 1)
       IN  /\ rx' = r.rx
           /\ rx_io' = r.io
           /\ rx_pc' = IF r.panic THEN "panicked" ELSE "live"
           /\ rx_next' = rx_next + 1
           /\ rx_ret' = [called |-> TRUE, pkt |-> r.res, ga |-> r.ga.some,
                         idx |-> r.ga.idx, desc |-> r.ga.desc,
                         at_slot |-> rx_posted[r.ga.idx],
                         posted |-> r.posted, slot |-> r.slot]
           /\ rx_posted' = IF r.posted
                           THEN [rx_posted EXCEPT ![r.slot] = rx_next + 1]
                           ELSE rx_posted
           /\ rx_delivered' = IF r.res # None
                              THEN Append(rx_delivered, r.res)
                              ELSE rx_delivered
           /\ rx_freed' = rx_freed \cup r.dropped
           /\ rx_hw' = IF r.posted
                       THEN [rx_hw EXCEPT !.pending[r.slot] = TRUE]
                       ELSE rx_hw
    /\ UNCHANGED <<ringVars, txVars, macVars>>
    /\ UNCHANGED mtxVars
    /\ UNCHANGED callVars
    /\ UNCHANGED pureVars

\* the device fetches one posted descriptor: RDH moves toward RDT
RxHwAdvanceHead ==
    /\ rx_hw.enabled
    /\ rx_io[RDH] # rx_io[RDT]
    /\ rx_io' = [rx_io EXCEPT ![RDH] = (rx_io[RDH] + 1) % RingN]
    /\ UNCHANGED <<rx, rx_hw, rx_pc, rx_ret, rx_next, rx_posted, rx_delivered,
                   rx_freed, ringVars, txVars, macVars>>
    /\ UNCHANGED mtxVars
    /\ UNCHANGED callVars
    /\ UNCHANGED pureVars

\* the device writes a packet into the next posted buffer and writes the
\* descriptor back with Descriptor-Done set
RxHwWriteBack(w) ==
    /\ rx_hw.enabled
    /\ rx_hw.pending[rx_hw.wb]
    /\ rx_pc # "released"
    /\ rx' = [rx EXCEPT !.base.desc_table[rx_hw.wb] = w]
    /\ rx_hw' = [rx_hw EXCEPT !.pending[rx_hw.wb] = FALSE,
                              !.wb = (rx_hw.wb + 1) % RingN]
    /\ UNCHANGED <<rx_io, rx_pc, rx_ret, rx_next, rx_posted, rx_delivered,
                   rx_freed, ringVars, txVars, macVars>>
    /\ UNCHANGED mtxVars
    /\ UNCHANGED callVars
    /\ UNCHANGED pureVars

\* impl Drop for RxRing: the body of drop()
RxRing_drop_noclear(io) == write_reg(io, RXDCTL, RXDCTL_value(1))

RxRing_drop(io) == write_reg(io, RXDCTL, RXDCTL_value(0))

RxDrop ==
    /\ rx_pc = "live"
    /\ rx_io' = RxRing_drop(rx_io)
    /\ rx_pc' = "dropped"
    /\ UNCHANGED <<rx, rx_hw, rx_ret, rx_next, rx_posted, rx_delivered,
                   rx_freed, ringVars, txVars, macVars>>
    /\ UNCHANGED mtxVars
    /\ UNCHANGED callVars
    /\ UNCHANGED pureVars

\* after drop() returns the fields are dropped: mete_ls and its packets,
\* and the descriptor table
RxRelease ==
    /\ rx_pc = "dropped"
    /\ rx_pc' = "released"
    /\ rx_freed' = rx_freed \cup Held(rx.mete_ls)
    /\ UNCHANGED <<rx, rx_io, rx_hw, rx_ret, rx_next, rx_posted, rx_delivered,
                   ringVars, txVars, macVars>>
    /\ UNCHANGED mtxVars
    /\ UNCHANGED callVars
    /\ UNCHANGED pureVars

\* the cleared enable bit takes effect in the device
RxHwDisable ==
    /\ rx_hw.enabled
    /\ RXDCTL_ENABLE(rx_io[RXDCTL]) = 0
    /\ rx_hw' = [rx_hw EXCEPT !.enabled = FALSE]
    /\ UNCHANGED <<rx, rx_io, rx_pc, rx_ret, rx_next, rx_posted, rx_delivered,
                   rx_freed, ringVars, txVars, macVars>>
    /\ UNCHANGED mtxVars
    /\ UNCHANGED callVars
    /\ UNCHANGED pureVars

RxNext ==
    \/ RxReceive
    \/ RxHwAdvanceHead
    \/ \E w \in RxWriteBacks : RxHwWriteBack(w)
    \/ RxDrop
    \/ RxRelease
    \/ RxHwDisable

(***************************************************************************)
(* Transmit descriptors (src/src/rxtx/tx.rs).  Read format: buffer_addr   *)
(* is w0,w1, cmd_type_len is w2, olinfo_status is w3.  Write-back format:  *)
(* rsvd is w0,w1, nxtseq_seed is w2, status is w3.                         *)
(***************************************************************************)
TxAdvDescCmdBit(c) ==
    CASE c = "EOP" -> 24
      [] c = "IFCS" -> 25
      [] c = "IC" -> 26
      [] c = "RS" -> 27
      [] c = "DEXT" -> 29
      [] c = "VLE" -> 30
      [] c = "IDE" -> 31

TxDesc_new_context(buffer_addr, buffer_len, kind, cmd_ls) ==
    LET len == BitsVal(buffer_len, 0, 20)
        dtype == IF kind = "Data" THEN BitsVal(2, 20, 4) ELSE BitsVal(3, 20, 4)
        cmds == {TxAdvDescCmdBit(c) : c \in cmd_ls}
    IN  [w0 |-> Lo32(buffer_addr), w1 |-> Hi32(buffer_addr),
         w2 |-> len \cup dtype \cup cmds,
         w3 |-> {}]

TxDesc_new(buffer_addr, buffer_len, kind, cmd_ls) ==
    LET len == BitsVal(buffer_len, 0, 20)
        dtype == IF kind = "Data" THEN BitsVal(3, 20, 4) ELSE BitsVal(2, 20, 4)
        cmds == {TxAdvDescCmdBit(c) : c \in cmd_ls}
    IN  [w0 |-> Lo32(buffer_addr), w1 |-> Hi32(buffer_addr),
         w2 |-> len \cup dtype \cup cmds,
         w3 |-> {}]

TxDescWriteBack_is_done(desc) == Masked(desc.w3, 0, 1) # {}

TXDCTL_ENABLE(w) == Field(w, 25, 1)

(***************************************************************************)
(* TxRing.                                                                 *)
(***************************************************************************)
TXDCTL_value(enable) == FieldVal(enable, 25, 1) + FieldVal(1, 16, 5)

\* TxRing::new, first register write: TXDCTL::ENABLE::CLEAR
TxRing_new_disable(io) == write_reg(io, TXDCTL, 0)

\* TxRing::new from the base/length writes to the write that sets ENABLE
TxRing_new_program(r, io) ==
    LET io1 == write_reg(io, TDBAL, desc_table_base(r))
        io2 == write_reg(io1, TDBAH, 0)
        io3 == write_reg(io2, TDLEN, desc_table_size(r))
        ih == init_tail_head(r, io3)
    IN  [ring |-> ih.ring, io |-> write_reg(ih.io, TXDCTL, TXDCTL_value(1))]

TxRegs == {TDBAL, TDBAH, TDLEN, TDH, TDT, TXDCTL}

TxRing_new(desc_n) ==
    [base |-> Ring_new(desc_n, TDT, TDH),
     meta_ls |-> [i \in 0 .. (desc_n - 1) |-> None]]

\* the buffer lengths of the packets handed to transmit()
TxLens == {60, 1514}

\* TxRing::transmit of packet p with a buffer of len bytes
transmit_handback(s, io, p, len) ==
    LET g == get_available(s.base, io)
        idx == g.res.idx
        panic == g.res.some /\ s.meta_ls[idx] = None
        reclaimed == IF g.res.some THEN s.meta_ls[idx] ELSE None
        m1 == IF g.res.some THEN take(s.meta_ls, idx) ELSE s.meta_ls
        a == add_desc(g.ring, io,
                      TxDesc_new(bus_addr(p), len, "Data",
                                 {"EOP", "RS", "IFCS", "DEXT"}))
        m2 == IF a.ok THEN [m1 EXCEPT ![a.slot] = p] ELSE m1
    IN  IF panic
        THEN [tx |-> [s EXCEPT !.base = g.ring], io |-> io, panic |-> TRUE,
              ok |-> FALSE, ga |-> g.res, reclaimed |-> None, slot |-> 0,
              dropped |-> {}]
        ELSE [tx |-> [s EXCEPT !.base = a.ring, !.meta_ls = m2], io |-> a.io,
              panic |-> FALSE, ok |-> a.ok, ga |-> g.res,
              reclaimed |-> reclaimed, slot |-> a.slot,
              dropped |-> ({reclaimed} \ {None})
                            \cup (IF a.ok THEN {m1[a.slot]} \ {None} ELSE {})]

transmit_notake(s, io, p, len) ==
    LET g == get_available(s.base, io)
        idx == g.res.idx
        panic == g.res.some /\ s.meta_ls[idx] = None
        reclaimed == IF g.res.some THEN s.meta_ls[idx] ELSE None
        m1 == s.meta_ls
        a == add_desc(g.ring, io,
                      TxDesc_new(bus_addr(p), len, "Data",
                                 {"EOP", "RS", "IFCS", "DEXT"}))
        m2 == IF a.ok THEN [m1 EXCEPT ![a.slot] = p] ELSE m1
    IN  IF panic
        THEN [tx |-> [s EXCEPT !.base = g.ring], io |-> io, panic |-> TRUE,
              ok |-> FALSE, ga |-> g.res, reclaimed |-> None, slot |-> 0,
              dropped |-> {}]
        ELSE [tx |-> [s EXCEPT !.base = a.ring, !.meta_ls = m2], io |-> a.io,
              panic |-> FALSE, ok |-> a.ok, ga |-> g.res,
              reclaimed |-> reclaimed, slot |-> a.slot,
              dropped |-> ({reclaimed} \ {None})
                            \cup (IF a.ok THEN {m1[a.slot]} \ {None} ELSE {p})]

transmit_stalefull(s, io, p, len) ==
    LET g == get_available(s.base, io)
        idx == g.res.idx
        panic == g.res.some /\ s.meta_ls[idx] = None
        reclaimed == IF g.res.some THEN s.meta_ls[idx] ELSE None
        m1 == IF g.res.some THEN take(s.meta_ls, idx) ELSE s.meta_ls
        a == add_desc(s.base, io,
                      TxDesc_new(bus_addr(p), len, "Data",
                                 {"EOP", "RS", "IFCS", "DEXT"}))
        m2 == IF a.ok THEN [m1 EXCEPT ![a.slot] = p] ELSE m1
    IN  IF panic
        THEN [tx |-> [s EXCEPT !.base = g.ring], io |-> io, panic |-> TRUE,
              ok |-> FALSE, ga |-> g.res, reclaimed |-> None, slot |-> 0,
              dropped |-> {}]
        ELSE [tx |-> [s EXCEPT !.base = a.ring, !.meta_ls = m2], io |-> a.io,
              panic |-> FALSE, ok |-> a.ok, ga |-> g.res,
              reclaimed |-> reclaimed, slot |-> a.slot,
              dropped |-> ({reclaimed} \ {None})
                            \cup (IF a.ok THEN {m1[a.slot]} \ {None} ELSE {p})]

transmit(s, io, p, len) ==
    LET g == get_available(s.base, io)
        idx == g.res.idx
        panic == g.res.some /\ s.meta_ls[idx] = None
        reclaimed == IF g.res.some THEN s.meta_ls[idx] ELSE None
        m1 == IF g.res.some THEN take(s.meta_ls, idx) ELSE s.meta_ls
        a == add_desc(g.ring, io,
                      TxDesc_new(bus_addr(p), len, "Data",
                                 {"EOP", "RS", "IFCS", "DEXT"}))
        m2 == IF a.ok THEN [m1 EXCEPT ![a.slot] = p] ELSE m1
    IN  IF panic
        THEN [tx |-> [s EXCEPT !.base = g.ring], io |-> io, panic |-> TRUE,
              ok |-> FALSE, ga |-> g.res, reclaimed |-> None, slot |-> 0,
              dropped |-> {}]
        ELSE [tx |-> [s EXCEPT !.base = a.ring, !.meta_ls = m2], io |-> a.io,
              panic |-> FALSE, ok |-> a.ok, ga |-> g.res,
              reclaimed |-> reclaimed, slot |-> a.slot,
              dropped |-> ({reclaimed} \ {None})
                            \cup (IF a.ok THEN {m1[a.slot]} \ {None} ELSE {p})]

TxIdle ==
    [called |-> FALSE, ok |-> FALSE, ga |-> FALSE, idx |-> 0,
     desc |-> ZeroDesc, reclaimed |-> None, slot |-> 0]

TxInit ==
    /\ tx = TxRing_new(RingN)
    /\ tx_io = TxRing_new_program(tx.base, [o \in TxRegs |-> 0]).io
    /\ tx_hw = HwInit
    /\ tx_pc = "live"
    /\ tx_ret = TxIdle
    /\ tx_next = 0
    /\ tx_freed = {}

TxTransmit(len) ==
    /\ tx_pc = "live"
    /\ tx_next < MaxPkts
    /\ LET r == transmit(tx, tx_io, tx_next + 1, len)
       IN  /\ tx' = r.tx
           /\ tx_io' = r.io
           /\ tx_pc' = IF r.panic THEN "panicked" ELSE "live"
           /\ tx_next' = tx_next + 1
           /\ tx_ret' = [called |-> TRUE, ok |-> r.ok, ga |-> r.ga.some,
                         idx |-> r.ga.idx, desc |-> r.ga.desc,
                         reclaimed |-> r.reclaimed, slot |-> r.slot]
           /\ tx_freed' = tx_freed \cup r.dropped
           /\ tx_hw' = IF r.ok
                       THEN [tx_hw EXCEPT !.pending[r.slot] = TRUE]
                       ELSE tx_hw
    /\ UNCHANGED <<ringVars, rxVars, macVars>>
    /\ UNCHANGED mtxVars
    /\ UNCHANGED callVars
    /\ UNCHANGED pureVars

\* the device fetches one posted descriptor: TDH moves toward TDT
TxHwAdvanceHead ==
    /\ tx_hw.enabled
    /\ tx_io[TDH] # tx_io[TDT]
    /\ tx_io' = [tx_io EXCEPT ![TDH] = (tx_io[TDH] + 1) % RingN]
    /\ UNCHANGED <<tx, tx_hw, tx_pc, tx_ret, tx_next, tx_freed, ringVars, rxVars, macVars>>
    /\ UNCHANGED mtxVars
    /\ UNCHANGED callVars
    /\ UNCHANGED pureVars

\* the device has sent the next posted buffer and writes the descriptor
\* back: status = DD
TxHwWriteBack ==
    /\ tx_hw.enabled
    /\ tx_hw.pending[tx_hw.wb]
    /\ tx_pc # "released"
    /\ tx' = [tx EXCEPT !.base.desc_table[tx_hw.wb] =
                      [w0 |-> {}, w1 |-> {}, w2 |-> {}, w3 |-> {0}]]
    /\ tx_hw' = [tx_hw EXCEPT !.pending[tx_hw.wb] = FALSE,
                              !.wb = (tx_hw.wb + 1) % RingN]
    /\ UNCHANGED <<tx_io, tx_pc, tx_ret, tx_next, tx_freed, ringVars, rxVars, macVars>>
    /\ UNCHANGED mtxVars
    /\ UNCHANGED callVars
    /\ UNCHANGED pureVars

\* impl Drop for TxRing: the body of drop()
TxRing_drop(io) == write_reg(io, TXDCTL, FieldVal(0, 25, 1))

TxDrop ==
    /\ tx_pc = "live"
    /\ tx_io' = TxRing_drop(tx_io)
    /\ tx_pc' = "dropped"
    /\ UNCHANGED <<tx, tx_hw, tx_ret, tx_next, tx_freed, ringVars, rxVars, macVars>>
    /\ UNCHANGED mtxVars
    /\ UNCHANGED callVars
    /\ UNCHANGED pureVars

\* after drop() returns the fields are dropped: meta_ls and its packets,
\* and the descriptor table
TxRelease ==
    /\ tx_pc = "dropped"
    /\ tx_pc' = "released"
    /\ tx_freed' = tx_freed \cup Held(tx.meta_ls)
    /\ UNCHANGED <<tx, tx_io, tx_hw, tx_ret, tx_next, ringVars, rxVars, macVars>>
    /\ UNCHANGED mtxVars
    /\ UNCHANGED callVars
    /\ UNCHANGED pureVars

\* the cleared enable bit takes effect in the device
TxHwDisable ==
    /\ tx_hw.enabled
    /\ TXDCTL_ENABLE(tx_io[TXDCTL]) = 0
    /\ tx_hw' = [tx_hw EXCEPT !.enabled = FALSE]
    /\ UNCHANGED <<tx, tx_io, tx_pc, tx_ret, tx_next, tx_freed, ringVars, rxVars, macVars>>
    /\ UNCHANGED mtxVars
    /\ UNCHANGED callVars
    /\ UNCHANGED pureVars

TxNext ==
    \/ \E len \in TxLens : TxTransmit(len)
    \/ TxHwAdvanceHead
    \/ TxHwWriteBack
    \/ TxDrop
    \/ TxRelease
    \/ TxHwDisable

(***************************************************************************)
(* One queue: the RxRing / TxRing pair of a queue index, carrying a        *)
(* bounded amount of traffic before both rings are torn down.              *)
(***************************************************************************)
\* packets the queue carries (both directions together) before teardown
MaxQueuePkts == 2

QueueRxReceive == rx_next + tx_next < MaxQueuePkts /\ RxReceive

QueueTxTransmit(len) == rx_next + tx_next < MaxQueuePkts /\ TxTransmit(len)

QueueNext ==
    \/ QueueRxReceive
    \/ \E len \in TxLens : QueueTxTransmit(len)
    \/ RxHwAdvanceHead
    \/ \E w \in RxWriteBacks : RxHwWriteBack(w)
    \/ RxDrop
    \/ RxRelease
    \/ RxHwDisable
    \/ TxHwAdvanceHead
    \/ TxHwWriteBack
    \/ TxDrop
    \/ TxRelease
    \/ TxHwDisable

(***************************************************************************)
(* One direction: the queue carries traffic through one of its two rings   *)
(* while the other stays as constructed.  The rings share no field and no  *)
(* register, so each ring runs with the full MaxPkts of traffic.           *)
(***************************************************************************)
RxUntouched == rx_next = 0 /\ rx_pc = "live"

TxUntouched == tx_next = 0 /\ tx_pc = "live"

EitherRxReceive == TxUntouched /\ RxReceive

EitherRxDrop == TxUntouched /\ RxDrop

EitherTxTransmit(len) == RxUntouched /\ TxTransmit(len)

EitherTxDrop == RxUntouched /\ TxDrop

EitherNext ==
    \/ EitherRxReceive
    \/ RxHwAdvanceHead
    \/ \E w \in RxWriteBacks : RxHwWriteBack(w)
    \/ EitherRxDrop
    \/ RxRelease
    \/ RxHwDisable
    \/ \E len \in TxLens : EitherTxTransmit(len)
    \/ TxHwAdvanceHead
    \/ TxHwWriteBack
    \/ EitherTxDrop
    \/ TxRelease
    \/ TxHwDisable

(***************************************************************************)
(* MAC and PHY (src/src/mac.rs, src/src/phy.rs, src/src/misc.rs).  A MAC   *)
(* register (u32) and a PHY register (u16) are held as the sets of their   *)
(* one-bits.                                                               *)
(***************************************************************************)
PHY_CONTROL == 0
PHY_STATUS == 1
\* try_count of the wait_for call in Mac::reset and in Phy::wait_for_negotiate
RESET_TRIES == 100
NEGOTIATE_TRIES == 500

\* fruitless polls of an unbounded spin loop that are counted
MaxSpins == 2

\* the number held in the NUMBITS-wide field at OFFSET of a register
RECURSIVE FieldNum(_, _, _)
FieldNum(w, offset, numbits) ==
    IF numbits = 0 THEN 0
    ELSE (IF offset \in w THEN 1 ELSE 0) + 2 * FieldNum(w, offset + 1, numbits - 1)

\* LocalRegisterCopy::matches_all of a FieldValue with this mask and value
matches_all(reg, mask, value) == (reg \cap mask) = value

\* for _ in 0..try_count { if f() { return Ok } sleep } Err: the outcome of
\* iteration i, given what f() returned
wait_for_swallow(ok, i, try_count) ==
    IF ok THEN [ret |-> "Ok", i |-> i]
    ELSE IF i + 1 < try_count THEN [ret |-> "again", i |-> i + 1]
    ELSE [ret |-> "Ok", i |-> i + 1]

wait_for_onemore(ok, i, try_count) ==
    IF ok THEN [ret |-> "Ok", i |-> i]
    ELSE IF i + 1 <= try_count THEN [ret |-> "again", i |-> i + 1]
    ELSE [ret |-> "timeout", i |-> i + 1]

wait_for(ok, i, try_count) ==
    IF ok THEN [ret |-> "Ok", i |-> i]
    ELSE IF i + 1 < try_count THEN [ret |-> "again", i |-> i + 1]
    ELSE [ret |-> "timeout", i |-> i + 1]

Mac_new ==
    [ctrl |-> {}, status |-> {}, mdic |-> {}, rctl |-> {}, tctl |-> {},
     eimc |-> {}, ral |-> {}, rah |-> {}]

\* eimc.set(u32::MAX)
disable_irq_toggle(m) == [m EXCEPT !.eimc = (0 .. 31) \ @]

disable_irq(m) == [m EXCEPT !.eimc = 0 .. 31]

\* ctrl.write(CTRL::RST::Reset + CTRL::PHY_RST::SET)
reset_write(m) == [m EXCEPT !.ctrl = {26, 31}]

\* ctrl.matches_all(CTRL::RST::Normal + CTRL::PHY_RST::CLEAR)
reset_done_asserted(m) == matches_all(m.ctrl, {26, 31}, {26, 31})

reset_done(m) == matches_all(m.ctrl, {26, 31}, {})

\* ctrl.modify(CTRL::SLU::SET)
link_up(m) == [m EXCEPT !.ctrl = @ \cup {6}]

\* rctl.modify(RCTL::RXEN::SET); tctl.modify(TCTL::EN::Enabled)
enable_rx_tx(m) == [m EXCEPT !.rctl = @ \cup {1}, !.tctl = @ \cup {1}]

\* the transaction word mdic_read writes: OP::Read, READY, I and
\* Destination clear
mdic_read_word(phy_addr, offset) ==
    BitsVal(offset, 16, 5) \cup BitsVal(phy_addr, 21, 5) \cup BitsVal(2, 26, 2)

\* the transaction word mdic_write writes: OP::Write and the data
mdic_write_word(phy_addr, offset, data) ==
    BitsVal(offset, 16, 5) \cup BitsVal(phy_addr, 21, 5) \cup BitsVal(1, 26, 2)
        \cup Masked(data, 0, 16)

\* mdic.read(MDIC::DATA) as u16
MDIC_DATA(w) == Masked(w, 0, 16)

\* one iteration of the loop of mdic_read / mdic_write on the extracted
\* register value
mdic_poll_giveup(w) ==
    IF 28 \in w THEN "Ok" ELSE "Err"

mdic_poll_errfirst(w) ==
    IF 30 \in w THEN "Err" ELSE IF 28 \in w THEN "Ok" ELSE "spin"

mdic_poll(w) ==
    IF 28 \in w THEN "Ok" ELSE IF 30 \in w THEN "Err" ELSE "spin"

Phy_new(addr) == [addr |-> addr, pctrl |-> {}]

power_up_value_normal(pctrl) == {}

\* pctrl &= !PCTRL::POWER_DOWN::PowerDown.value
power_up_value(pctrl) == pctrl \ {11}

\* pctrl |= (AUTO_NEGOTIATION_ENABLE::SET + RESTART_AUTO_NEGOTIATION::SET).value
enable_auto_negotiation_value(pctrl) == pctrl \cup {12, 9}

\* status & PSTATUS::AUTO_NEGOTIATION_COMPLETE::SET.value != 0
negotiate_complete_ability(status) == 3 \in status

negotiate_complete(status) == 5 \in status

\* the closure wait_for_negotiate hands to wait_for, given what status()
\* returned: if let Ok(status) = .. { complete } else { false }
negotiate_poll_errdone(r, data) == r = "Err" \/ negotiate_complete(data)

negotiate_poll(r, data) == r = "Ok" /\ negotiate_complete(data)

(***************************************************************************)
(* The bring-up sequence of the device.                                    *)
(***************************************************************************)
BringUp ==
    <<"disable_irq", "reset", "disable_irq", "power_up",
      "enable_auto_negotiation", "link_up", "wait_for_negotiate",
      "enable_rx_tx">>

\* the PHY chips: bus address and reset value of the PHY control register
PhyChips == {<<1, {11, 6}>>, <<2, {6, 8, 12}>>}

NoObs == [seen |-> FALSE]

MacInit ==
    /\ mac = Mac_new
    /\ phy = Phy_new(0)
    /\ phy_dev = [r \in {PHY_CONTROL, PHY_STATUS} |-> {}]
    /\ open_step = 1
    /\ open_pc = "new"
    /\ open_err = "none"
    /\ polls = 0
    /\ spins = 0
    /\ open_obs = NoObs
    /\ open_trace = << >>

Running(step) ==
    /\ open_pc \notin {"new", "done", "failed"}
    /\ BringUp[open_step] = step

\* the step returned Ok: the next step is called
StepDone ==
    /\ open_step' = IF open_step = Len(BringUp) THEN open_step ELSE open_step + 1
    /\ open_pc' = IF open_step = Len(BringUp) THEN "done" ELSE "call"
    /\ open_err' = open_err

\* the step returned Err: the sequence is aborted with the step's error
StepFailed(e) ==
    /\ open_step' = open_step
    /\ open_pc' = "failed"
    /\ open_err' = e

Spin == IF spins < MaxSpins THEN spins + 1 ELSE spins

\* Phy::new for the PHY at addr, whose control register holds its reset value
\* and whose status register shows the auto-negotiation ability
PhyNew(addr, pctrl) ==
    /\ open_pc = "new"
    /\ phy' = Phy_new(addr)
    /\ phy_dev' = [phy_dev EXCEPT ![PHY_CONTROL] = pctrl, ![PHY_STATUS] = {3}]
    /\ open_pc' = "call"
    /\ UNCHANGED <<mac, open_step, open_err, polls, spins, open_obs>>
    /\ UNCHANGED open_trace
    /\ UNCHANGED <<ringVars, rxVars, txVars>>
    /\ UNCHANGED mtxVars
    /\ UNCHANGED callVars
    /\ UNCHANGED pureVars

MacDisableIrq ==
    /\ Running("disable_irq")
    /\ open_pc = "call"
    /\ mac' = disable_irq(mac)
    /\ StepDone
    /\ UNCHANGED <<phy, phy_dev, polls, spins, open_obs>>
    /\ open_trace' = Append(open_trace, "disable_irq")
    /\ UNCHANGED <<ringVars, rxVars, txVars>>
    /\ UNCHANGED mtxVars
    /\ UNCHANGED callVars
    /\ UNCHANGED pureVars

\* Mac::reset up to the call of wait_for
MacResetWrite ==
    /\ Running("reset")
    /\ open_pc = "call"
    /\ mac' = reset_write(mac)
    /\ open_pc' = "poll"
    /\ polls' = 0
    /\ open_obs' = NoObs
    /\ UNCHANGED <<phy, phy_dev, open_step, open_err, spins>>
    /\ open_trace' = Append(open_trace, "reset")
    /\ UNCHANGED <<ringVars, rxVars, txVars>>
    /\ UNCHANGED mtxVars
    /\ UNCHANGED callVars
    /\ UNCHANGED pureVars

\* one iteration of wait_for inside Mac::reset
MacResetPoll ==
    /\ Running("reset")
    /\ open_pc = "poll"
    /\ LET w == wait_for(reset_done(mac), polls, RESET_TRIES)
       IN  /\ polls' = IF w.ret = "Ok" THEN 0 ELSE w.i
           /\ open_obs' = [seen |-> mac.ctrl \cap {26, 31} = {}]
           /\ CASE w.ret = "Ok" -> StepDone
                [] w.ret = "again" -> UNCHANGED <<open_step, open_pc, open_err>>
                [] w.ret = "timeout" -> StepFailed("ResetTimeout")
    /\ UNCHANGED <<mac, phy, phy_dev, spins>>
    /\ UNCHANGED open_trace
    /\ UNCHANGED <<ringVars, rxVars, txVars>>
    /\ UNCHANGED mtxVars
    /\ UNCHANGED callVars
    /\ UNCHANGED pureVars

\* Phy::power_up / Phy::enable_auto_negotiation: read_reg(PHY_CONTROL) up to
\* the loop of mdic_read
PhyControlRead(f) ==
    /\ Running(f)
    /\ open_pc = "call"
    /\ mac' = [mac EXCEPT !.mdic = mdic_read_word(phy.addr, PHY_CONTROL)]
    /\ open_pc' = "read_poll"
    /\ spins' = 0
    /\ UNCHANGED <<phy, phy_dev, open_step, open_err, polls, open_obs>>
    /\ open_trace' = Append(open_trace, f)
    /\ UNCHANGED <<ringVars, rxVars, txVars>>
    /\ UNCHANGED mtxVars
    /\ UNCHANGED callVars
    /\ UNCHANGED pureVars

\* one iteration of the loop of mdic_read, and what the caller does with
\* the result
PhyControlReadPoll(f) ==
    /\ Running(f)
    /\ open_pc = "read_poll"
    /\ LET r == mdic_poll(mac.mdic)
       IN  /\ CASE r = "Ok" ->
                     /\ phy' = [phy EXCEPT !.pctrl =
                                   IF f = "power_up"
                                   THEN power_up_value(MDIC_DATA(mac.mdic))
                                   ELSE enable_auto_negotiation_value(
                                            MDIC_DATA(mac.mdic))]
                     /\ open_pc' = "write"
                     /\ UNCHANGED <<open_step, open_err, spins>>
                [] r = "Err" ->
                     /\ StepFailed("PhyAccessError")
                     /\ UNCHANGED <<phy, spins>>
                [] r = "spin" ->
                     /\ spins' = Spin
                     /\ UNCHANGED <<phy, open_step, open_pc, open_err>>
    /\ UNCHANGED <<mac, phy_dev, polls, open_obs>>
    /\ UNCHANGED open_trace
    /\ UNCHANGED <<ringVars, rxVars, txVars>>
    /\ UNCHANGED mtxVars
    /\ UNCHANGED callVars
    /\ UNCHANGED pureVars

\* write_reg(PHY_CONTROL, pctrl) up to the loop of mdic_write
PhyControlWrite(f) ==
    /\ Running(f)
    /\ open_pc = "write"
    /\ mac' = [mac EXCEPT !.mdic =
                   mdic_write_word(phy.addr, PHY_CONTROL, phy.pctrl)]
    /\ open_pc' = "write_poll"
    /\ spins' = 0
    /\ UNCHANGED <<phy, phy_dev, open_step, open_err, polls, open_obs>>
    /\ UNCHANGED open_trace
    /\ UNCHANGED <<ringVars, rxVars, txVars>>
    /\ UNCHANGED mtxVars
    /\ UNCHANGED callVars
    /\ UNCHANGED pureVars

\* one iteration of the loop of mdic_write
PhyControlWritePoll(f) ==
    /\ Running(f)
    /\ open_pc = "write_poll"
    /\ LET r == mdic_poll(mac.mdic)
       IN  /\ CASE r = "Ok" -> StepDone /\ UNCHANGED spins
                [] r = "Err" -> StepFailed("PhyAccessError") /\ UNCHANGED spins
                [] r = "spin" ->
                     /\ spins' = Spin
                     /\ UNCHANGED <<open_step, open_pc, open_err>>
    /\ UNCHANGED <<mac, phy, phy_dev, polls, open_obs>>
    /\ UNCHANGED open_trace
    /\ UNCHANGED <<ringVars, rxVars, txVars>>
    /\ UNCHANGED mtxVars
    /\ UNCHANGED callVars
    /\ UNCHANGED pureVars

MacLinkUp ==
    /\ Running("link_up")
    /\ open_pc = "call"
    /\ mac' = link_up(mac)
    /\ StepDone
    /\ UNCHANGED <<phy, phy_dev, polls, spins, open_obs>>
    /\ open_trace' = Append(open_trace, "link_up")
    /\ UNCHANGED <<ringVars, rxVars, txVars>>
    /\ UNCHANGED mtxVars
    /\ UNCHANGED callVars
    /\ UNCHANGED pureVars

\* Phy::wait_for_negotiate: the closure calls status(), that is
\* read_reg(PHY_STATUS), up to the loop of mdic_read
PhyStatusRead ==
    /\ Running("wait_for_negotiate")
    /\ open_pc \in {"call", "sleep"}
    /\ mac' = [mac EXCEPT !.mdic = mdic_read_word(phy.addr, PHY_STATUS)]
    /\ open_pc' = "neg_poll"
    /\ polls' = IF open_pc = "call" THEN 0 ELSE polls
    /\ open_obs' = IF open_pc = "call" THEN NoObs ELSE open_obs
    /\ spins' = 0
    /\ UNCHANGED <<phy, phy_dev, open_step, open_err>>
    /\ open_trace' = IF open_pc = "call"
                     THEN Append(open_trace, "wait_for_negotiate")
                     ELSE open_trace
    /\ UNCHANGED <<ringVars, rxVars, txVars>>
    /\ UNCHANGED mtxVars
    /\ UNCHANGED callVars
    /\ UNCHANGED pureVars

\* one iteration of the loop of mdic_read inside status(); when it returns,
\* the rest of the wait_for iteration
PhyStatusPoll ==
    /\ Running("wait_for_negotiate")
    /\ open_pc = "neg_poll"
    /\ LET r == mdic_poll(mac.mdic)
           ok == negotiate_poll(r, MDIC_DATA(mac.mdic))
           w == wait_for(ok, polls, NEGOTIATE_TRIES)
           raw == 28 \in mac.mdic /\ 5 \in mac.mdic
       IN  IF r = "spin"
           THEN /\ spins' = Spin
                /\ UNCHANGED <<open_step, open_pc, open_err, polls, open_obs>>
           ELSE /\ polls' = IF w.ret = "Ok" THEN 0 ELSE w.i
                /\ open_obs' = [seen |-> raw]
                /\ spins' = spins
                /\ CASE w.ret = "Ok" -> StepDone
                     [] w.ret = "again" ->
                          /\ open_pc' = "sleep"
                          /\ UNCHANGED <<open_step, open_err>>
                     [] w.ret = "timeout" -> StepFailed("NoPhyLink")
    /\ UNCHANGED <<mac, phy, phy_dev>>
    /\ UNCHANGED open_trace
    /\ UNCHANGED <<ringVars, rxVars, txVars>>
    /\ UNCHANGED mtxVars
    /\ UNCHANGED callVars
    /\ UNCHANGED pureVars

MacEnableRxTx ==
    /\ Running("enable_rx_tx")
    /\ open_pc = "call"
    /\ mac' = enable_rx_tx(mac)
    /\ StepDone
    /\ UNCHANGED <<phy, phy_dev, polls, spins, open_obs>>
    /\ open_trace' = Append(open_trace, "enable_rx_tx")
    /\ UNCHANGED <<ringVars, rxVars, txVars>>
    /\ UNCHANGED mtxVars
    /\ UNCHANGED callVars
    /\ UNCHANGED pureVars

\* the device ends its reset: RST, PHY_RST or both read back clear
HwResetClear(bits) ==
    /\ mac.ctrl \cap bits # {}
    /\ mac' = [mac EXCEPT !.ctrl = @ \ bits]
    /\ UNCHANGED <<phy, phy_dev, open_step, open_pc, open_err, polls, spins,
                   open_obs>>
    /\ UNCHANGED open_trace
    /\ UNCHANGED <<ringVars, rxVars, txVars>>
    /\ UNCHANGED mtxVars
    /\ UNCHANGED callVars
    /\ UNCHANGED pureVars

\* the device ends the MDI transaction held in MDIC: on "ready" the PHY
\* register is read into DATA or written from it and READY is set; on
\* "error" E is set; on "both" READY and E are set
HwMdicComplete(outcome) ==
    /\ mac.mdic \cap {28, 30} = {}
    /\ mac.mdic \cap {26, 27} # {}
    /\ LET reg == FieldNum(mac.mdic, 16, 5)
           flags == CASE outcome = "ready" -> {28}
                      [] outcome = "error" -> {30}
                      [] outcome = "both" -> {28, 30}
       IN  IF outcome = "ready" /\ 27 \in mac.mdic
           THEN /\ mac' = [mac EXCEPT !.mdic =
                              (@ \ (0 .. 15)) \cup phy_dev[reg] \cup flags]
                /\ phy_dev' = phy_dev
           ELSE IF outcome = "ready"
           THEN /\ mac' = [mac EXCEPT !.mdic = @ \cup flags]
                /\ phy_dev' = [phy_dev EXCEPT ![reg] = MDIC_DATA(mac.mdic)]
           ELSE /\ mac' = [mac EXCEPT !.mdic = @ \cup flags]
                /\ phy_dev' = phy_dev
    /\ UNCHANGED <<phy, open_step, open_pc, open_err, polls, spins, open_obs>>
    /\ UNCHANGED open_trace
    /\ UNCHANGED <<ringVars, rxVars, txVars>>
    /\ UNCHANGED mtxVars
    /\ UNCHANGED callVars
    /\ UNCHANGED pureVars

\* the PHY completes auto-negotiation with its link partner
HwNegotiate ==
    /\ open_pc # "new"
    /\ 5 \notin phy_dev[PHY_STATUS]
    /\ phy_dev' = [phy_dev EXCEPT ![PHY_STATUS] = @ \cup {5, 2}]
    /\ UNCHANGED <<mac, phy, open_step, open_pc, open_err, polls, spins,
                   open_obs>>
    /\ UNCHANGED open_trace
    /\ UNCHANGED <<ringVars, rxVars, txVars>>
    /\ UNCHANGED mtxVars
    /\ UNCHANGED callVars
    /\ UNCHANGED pureVars

(***************************************************************************)
(* Queue allocation after the bring-up: RxRing::new and TxRing::new, one   *)
(* after the other, each up to its wait for the queue enable bit.  Before  *)
(* its constructor runs a ring is "unborn"; queue 0 powers on enabled.     *)
(***************************************************************************)
RxUnborn ==
    /\ rx = RxRing_new(RingN, PACKET_SIZE)
    /\ rx_io = [o \in RxRegs |-> IF o = RXDCTL THEN FieldVal(1, 25, 1) ELSE 0]
    /\ rx_hw = HwInit
    /\ rx_pc = "unborn"
    /\ rx_ret = RxIdle
    /\ rx_next = 0
    /\ rx_posted = [i \in Slots |-> None]
    /\ rx_delivered = << >>
    /\ rx_freed = {}

TxUnborn ==
    /\ tx = TxRing_new(RingN)
    /\ tx_io = [o \in TxRegs |-> IF o = TXDCTL THEN FieldVal(1, 25, 1) ELSE 0]
    /\ tx_hw = HwInit
    /\ tx_pc = "unborn"
    /\ tx_ret = TxIdle
    /\ tx_next = 0
    /\ tx_freed = {}

\* the bring-up has returned and no other constructor is running
MayConstruct(other_pc) ==
    /\ open_pc \in {"done", "failed"}
    /\ other_pc \in {"unborn", "live"}

RxNewDisable ==
    /\ rx_pc = "unborn"
    /\ MayConstruct(tx_pc)
    /\ rx_io' = RxRing_new_disable(rx_io)
    /\ rx_pc' = "programming"
    /\ UNCHANGED <<rx, rx_hw, rx_ret, rx_next, rx_posted, rx_delivered, rx_freed>>
    /\ UNCHANGED <<ringVars, txVars, macVars>>
    /\ UNCHANGED mtxVars
    /\ UNCHANGED callVars
    /\ UNCHANGED pureVars

RxNewProgram ==
    /\ rx_pc = "programming"
    /\ LET n == RxRing_new_program(rx.base, rx_io, rx.pkt_size)
       IN  /\ rx' = [rx EXCEPT !.base = n.ring]
           /\ rx_io' = n.io
    /\ rx_pc' = "enabling"
    /\ spins' = 0
    /\ UNCHANGED <<rx_hw, rx_ret, rx_next, rx_posted, rx_delivered, rx_freed>>
    /\ UNCHANGED <<mac, phy, phy_dev, open_step, open_pc, open_err, polls,
                   open_obs, open_trace>>
    /\ UNCHANGED <<ringVars, txVars>>
    /\ UNCHANGED mtxVars
    /\ UNCHANGED callVars
    /\ UNCHANGED pureVars

\* one iteration of the while loop of RxRing::new; when it ends the
\* metadata table is built and the ring returned
RxNewPoll ==
    /\ rx_pc = "enabling"
    /\ IF enable_poll(xdctl_read(rx_io, RXDCTL, rx_hw))
       THEN /\ rx_pc' = "live"
            /\ rx' = [rx EXCEPT !.mete_ls = [i \in DOMAIN rx.mete_ls |-> None]]
            /\ spins' = 0
       ELSE /\ rx_pc' = "enabling"
            /\ rx' = rx
            /\ spins' = Spin
    /\ UNCHANGED <<rx_io, rx_hw, rx_ret, rx_next, rx_posted, rx_delivered,
                   rx_freed>>
    /\ UNCHANGED <<mac, phy, phy_dev, open_step, open_pc, open_err, polls,
                   open_obs, open_trace>>
    /\ UNCHANGED <<ringVars, txVars>>
    /\ UNCHANGED mtxVars
    /\ UNCHANGED callVars
    /\ UNCHANGED pureVars

\* the set enable bit takes effect in the device
RxHwEnable ==
    /\ ~rx_hw.enabled
    /\ RXDCTL_ENABLE(rx_io[RXDCTL]) = 1
    /\ rx_hw' = [rx_hw EXCEPT !.enabled = TRUE]
    /\ UNCHANGED <<rx, rx_io, rx_pc, rx_ret, rx_next, rx_posted, rx_delivered,
                   rx_freed, ringVars, txVars, macVars>>
    /\ UNCHANGED mtxVars
    /\ UNCHANGED callVars
    /\ UNCHANGED pureVars

TxNewDisable ==
    /\ tx_pc = "unborn"
    /\ MayConstruct(rx_pc)
    /\ tx_io' = TxRing_new_disable(tx_io)
    /\ tx_pc' = "programming"
    /\ UNCHANGED <<tx, tx_hw, tx_ret, tx_next, tx_freed>>
    /\ UNCHANGED <<ringVars, rxVars, macVars>>
    /\ UNCHANGED mtxVars
    /\ UNCHANGED callVars
    /\ UNCHANGED pureVars

TxNewProgram ==
    /\ tx_pc = "programming"
    /\ LET n == TxRing_new_program(tx.base, tx_io)
       IN  /\ tx' = [tx EXCEPT !.base = n.ring]
           /\ tx_io' = n.io
    /\ tx_pc' = "enabling"
    /\ spins' = 0
    /\ UNCHANGED <<tx_hw, tx_ret, tx_next, tx_freed>>
    /\ UNCHANGED <<mac, phy, phy_dev, open_step, open_pc, open_err, polls,
                   open_obs, open_trace>>
    /\ UNCHANGED <<ringVars, rxVars>>
    /\ UNCHANGED mtxVars
    /\ UNCHANGED callVars
    /\ UNCHANGED pureVars

\* one iteration of the while loop of TxRing::new
TxNewPoll ==
    /\ tx_pc = "enabling"
    /\ IF enable_poll(xdctl_read(tx_io, TXDCTL, tx_hw))
       THEN /\ tx_pc' = "live"
            /\ tx' = [tx EXCEPT !.meta_ls = [i \in DOMAIN tx.meta_ls |-> None]]
            /\ spins' = 0
       ELSE /\ tx_pc' = "enabling"
            /\ tx' = tx
            /\ spins' = Spin
    /\ UNCHANGED <<tx_io, tx_hw, tx_ret, tx_next, tx_freed>>
    /\ UNCHANGED <<mac, phy, phy_dev, open_step, open_pc, open_err, polls,
                   open_obs, open_trace>>
    /\ UNCHANGED <<ringVars, rxVars>>
    /\ UNCHANGED mtxVars
    /\ UNCHANGED callVars
    /\ UNCHANGED pureVars

\* the set enable bit takes effect in the device
TxHwEnable ==
    /\ ~tx_hw.enabled
    /\ TXDCTL_ENABLE(tx_io[TXDCTL]) = 1
    /\ tx_hw' = [tx_hw EXCEPT !.enabled = TRUE]
    /\ UNCHANGED <<tx, tx_io, tx_pc, tx_ret, tx_next, tx_freed, ringVars,
                   rxVars, macVars>>
    /\ UNCHANGED mtxVars
    /\ UNCHANGED callVars
    /\ UNCHANGED pureVars

(***************************************************************************)
(* RxRing::new and TxRing::new statement by statement: one step for each   *)
(* register write of the constructor, in the order of the source, on a     *)
(* queue whose head and tail registers hold what an earlier use left.      *)
(***************************************************************************)
RxRing_new_order_enablefirst ==
    <<"RXDCTL_clear", "RDBAL", "RDBAH", "RDLEN", "SRRCTL", "RXDCTL_enable",
      "init_tail_head">>

\* the statements of RxRing::new that write registers (rx.rs:50-68)
RxRing_new_order ==
    <<"RXDCTL_clear", "RDBAL", "RDBAH", "RDLEN", "SRRCTL", "init_tail_head",
      "RXDCTL_enable">>

RxRing_new_write(st, r, io, pkt_size) ==
    CASE st = "RXDCTL_clear" -> [ring |-> r, io |-> RxRing_new_disable(io)]
      [] st = "RDBAL" ->
            [ring |-> r, io |-> write_reg(io, RDBAL, desc_table_base(r))]
      [] st = "RDBAH" -> [ring |-> r, io |-> write_reg(io, RDBAH, 0)]
      [] st = "RDLEN" ->
            [ring |-> r, io |-> write_reg(io, RDLEN, desc_table_size(r))]
      [] st = "SRRCTL" ->
            [ring |-> r, io |-> write_reg(io, SRRCTL, SRRCTL_value(pkt_size))]
      [] st = "init_tail_head" -> init_tail_head(r, io)
      [] st = "RXDCTL_enable" ->
            [ring |-> r, io |-> write_reg(io, RXDCTL, RXDCTL_value(1))]

\* the statements of TxRing::new that write registers (tx.rs:47-54)
TxRing_new_order ==
    <<"TXDCTL_clear", "TDBAL", "TDBAH", "TDLEN", "init_tail_head",
      "TXDCTL_enable">>

TxRing_new_write(st, r, io) ==
    CASE st = "TXDCTL_clear" -> [ring |-> r, io |-> TxRing_new_disable(io)]
      [] st = "TDBAL" ->
            [ring |-> r, io |-> write_reg(io, TDBAL, desc_table_base(r))]
      [] st = "TDBAH" -> [ring |-> r, io |-> write_reg(io, TDBAH, 0)]
      [] st = "TDLEN" ->
            [ring |-> r, io |-> write_reg(io, TDLEN, desc_table_size(r))]
      [] st = "init_tail_head" -> init_tail_head(r, io)
      [] st = "TXDCTL_enable" ->
            [ring |-> r, io |-> write_reg(io, TXDCTL, TXDCTL_value(1))]

\* the number of statements of the order already executed at pc
Executed(order, pc) ==
    IF \E i \in 1 .. Len(order) : order[i] = pc
    THEN CHOOSE i \in 1 .. Len(order) : order[i] = pc
    ELSE 0

\* head and tail register values an earlier use of the queue left
StaleIndexes == {0, RingN - 1}

RxStale ==
    /\ rx = RxRing_new(RingN, PACKET_SIZE)
    /\ \E h, t \in StaleIndexes :
          rx_io = [o \in RxRegs |->
                      CASE o = RXDCTL -> FieldVal(1, 25, 1)
                        [] o = RDH -> h
                        [] o = RDT -> t
                        [] OTHER -> 0]
    /\ rx_hw = HwInit
    /\ rx_pc = "unborn"
    /\ rx_ret = RxIdle
    /\ rx_next = 0
    /\ rx_posted = [i \in Slots |-> None]
    /\ rx_delivered = << >>
    /\ rx_freed = {}

TxStale ==
    /\ tx = TxRing_new(RingN)
    /\ \E h, t \in StaleIndexes :
          tx_io = [o \in TxRegs |->
                      CASE o = TXDCTL -> FieldVal(1, 25, 1)
                        [] o = TDH -> h
                        [] o = TDT -> t
                        [] OTHER -> 0]
    /\ tx_hw = HwInit
    /\ tx_pc = "unborn"
    /\ tx_ret = TxIdle
    /\ tx_next = 0
    /\ tx_freed = {}

\* the next register write of RxRing::new; after the last one the
\* constructor is in its enable loop
RxNewWrite ==
    /\ rx_pc \in {"unborn"} \cup
                 {RxRing_new_order[i] : i \in 1 .. (Len(RxRing_new_order) - 1)}
    /\ (rx_pc = "unborn") => (tx_pc \in {"unborn", "live"})
    /\ LET k == Executed(RxRing_new_order, rx_pc) + 1
           st == RxRing_new_order[k]
           n == RxRing_new_write(st, rx.base, rx_io, rx.pkt_size)
       IN  /\ rx' = [rx EXCEPT !.base = n.ring]
           /\ rx_io' = n.io
           /\ rx_pc' = IF k = Len(RxRing_new_order) THEN "enabling" ELSE st
    /\ spins' = 0
    /\ UNCHANGED <<rx_hw, rx_ret, rx_next, rx_posted, rx_delivered, rx_freed>>
    /\ UNCHANGED <<mac, phy, phy_dev, open_step, open_pc, open_err, polls,
                   open_obs, open_trace>>
    /\ UNCHANGED <<ringVars, txVars>>
    /\ UNCHANGED mtxVars
    /\ UNCHANGED callVars
    /\ UNCHANGED pureVars

TxNewWrite ==
    /\ tx_pc \in {"unborn"} \cup
                 {TxRing_new_order[i] : i \in 1 .. (Len(TxRing_new_order) - 1)}
    /\ (tx_pc = "unborn") => (rx_pc \in {"unborn", "live"})
    /\ LET k == Executed(TxRing_new_order, tx_pc) + 1
           st == TxRing_new_order[k]
           n == TxRing_new_write(st, tx.base, tx_io)
       IN  /\ tx' = [tx EXCEPT !.base = n.ring]
           /\ tx_io' = n.io
           /\ tx_pc' = IF k = Len(TxRing_new_order) THEN "enabling" ELSE st
    /\ spins' = 0
    /\ UNCHANGED <<tx_hw, tx_ret, tx_next, tx_freed>>
    /\ UNCHANGED <<mac, phy, phy_dev, open_step, open_pc, open_err, polls,
                   open_obs, open_trace>>
    /\ UNCHANGED <<ringVars, rxVars>>
    /\ UNCHANGED mtxVars
    /\ UNCHANGED callVars
    /\ UNCHANGED pureVars

NewNext ==
    \/ RxNewWrite
    \/ RxNewPoll
    \/ RxHwDisable
    \/ RxHwEnable
    \/ QueueRxReceive
    \/ RxHwAdvanceHead
    \/ TxNewWrite
    \/ TxNewPoll
    \/ TxHwDisable
    \/ TxHwEnable
    \/ \E len \in TxLens : QueueTxTransmit(len)
    \/ TxHwAdvanceHead


OpenNext ==
    \/ \E chip \in PhyChips : PhyNew(chip[1], chip[2])
    \/ MacDisableIrq
    \/ MacResetWrite
    \/ MacResetPoll
    \/ \E f \in {"power_up", "enable_auto_negotiation"} : PhyControlRead(f)
    \/ \E f \in {"power_up", "enable_auto_negotiation"} : PhyControlReadPoll(f)
    \/ \E f \in {"power_up", "enable_auto_negotiation"} : PhyControlWrite(f)
    \/ \E f \in {"power_up", "enable_auto_negotiation"} : PhyControlWritePoll(f)
    \/ MacLinkUp
    \/ PhyStatusRead
    \/ PhyStatusPoll
    \/ MacEnableRxTx
    \/ \E bits \in {{26}, {31}, {26, 31}} : HwResetClear(bits)
    \/ \E outcome \in {"ready", "error", "both"} : HwMdicComplete(outcome)
    \/ HwNegotiate
    \/ RxNewDisable
    \/ RxNewProgram
    \/ RxNewPoll
    \/ RxHwDisable
    \/ RxHwEnable
    \/ TxNewDisable
    \/ TxNewProgram
    \/ TxNewPoll
    \/ TxHwDisable
    \/ TxHwEnable

(***************************************************************************)
(* Mutex<T> (src/src/mutex.rs): a spin lock on an AtomicBool.  Each context *)
(* acquires with lock() and releases by dropping the guard it got; the     *)
(* protected value is a counter the holder may increment through the       *)
(* guard.  One swap is one atomic step.                                    *)
(***************************************************************************)
Ctx == 1 .. Contexts

\* the context the adverse scheduler works against
Victim == 1

Mutex_new(data) == [inner |-> FALSE, data |-> data]

\* AtomicBool::swap(val): the stored value and the value returned
swap_blind(inner, val) == [inner |-> val, old |-> FALSE]

swap(inner, val) == [inner |-> val, old |-> inner]

\* one iteration of the while loop of Mutex::lock; acquired: the loop ends
\* and the guard is returned
lock_always(m) == [mutex |-> [m EXCEPT !.inner = TRUE], acquired |-> TRUE]

lock(m) ==
    LET w == swap(m.inner, TRUE)
    IN  [mutex |-> [m EXCEPT !.inner = w.inner], acquired |-> ~w.old]

\* Mutex::unlock: inner.store(false)
unlock_noop(m) == m

unlock_set(m) == [m EXCEPT !.inner = TRUE]

unlock(m) == [m EXCEPT !.inner = FALSE]

\* DerefMut for MutexGuard, used to increment the protected counter
deref_mut(m) == [m EXCEPT !.data = (m.data + 1) % DataMod]

\* Drop for MutexGuard
MutexGuard_drop(m) == unlock(m)

MtxInit ==
    /\ mtx = Mutex_new(0)
    /\ mtx_pc = [c \in Ctx |-> "idle"]
    /\ mtx_swaps = [c \in Ctx |-> 0]
    /\ mtx_sched = "free"

\* the scheduler is free, or never runs a swap of Victim while the flag is
\* clear
MtxAnySched ==
    /\ mtx = Mutex_new(0)
    /\ mtx_pc = [c \in Ctx |-> "idle"]
    /\ mtx_swaps = [c \in Ctx |-> 0]
    /\ mtx_sched \in {"free", "adverse"}

Scheduled(c) == (mtx_sched = "adverse" /\ c = Victim) => mtx.inner

\* context c calls lock(), or is in its loop, and executes one swap
MutexLock(c) ==
    /\ mtx_pc[c] \in {"idle", "spinning"}
    /\ Scheduled(c)
    /\ LET r == lock(mtx)
       IN  /\ mtx' = r.mutex
           /\ mtx_pc' = [mtx_pc EXCEPT ![c] =
                             IF r.acquired THEN "holding" ELSE "spinning"]
    /\ mtx_swaps' = [mtx_swaps EXCEPT ![c] = (@ + 1) % 2]
    /\ UNCHANGED mtx_sched
    /\ UNCHANGED <<ringVars, rxVars, txVars, macVars>>
    /\ UNCHANGED callVars
    /\ UNCHANGED pureVars

\* the holder of a guard increments the protected counter through it
MutexGuardDerefMut(c) ==
    /\ mtx_pc[c] = "holding"
    /\ mtx' = deref_mut(mtx)
    /\ mtx_pc' = [mtx_pc EXCEPT ![c] = "used"]
    /\ UNCHANGED <<mtx_swaps, mtx_sched>>
    /\ UNCHANGED <<ringVars, rxVars, txVars, macVars>>
    /\ UNCHANGED callVars
    /\ UNCHANGED pureVars

\* the guard of context c goes out of scope
MutexGuardDrop(c) ==
    /\ mtx_pc[c] \in {"holding", "used"}
    /\ mtx' = MutexGuard_drop(mtx)
    /\ mtx_pc' = [mtx_pc EXCEPT ![c] = "idle"]
    /\ UNCHANGED <<mtx_swaps, mtx_sched>>
    /\ UNCHANGED <<ringVars, rxVars, txVars, macVars>>
    /\ UNCHANGED callVars
    /\ UNCHANGED pureVars

MutexNext ==
    \E c \in Ctx :
        \/ MutexLock(c)
        \/ MutexGuardDerefMut(c)
        \/ MutexGuardDrop(c)

\* a context that holds no guard and is not inside lock() calls unlock()
MutexUnlock(c) ==
    /\ mtx_pc[c] = "idle"
    /\ mtx' = unlock(mtx)
    /\ UNCHANGED <<mtx_pc, mtx_swaps, mtx_sched>>
    /\ UNCHANGED <<ringVars, rxVars, txVars, macVars>>
    /\ UNCHANGED callVars
    /\ UNCHANGED pureVars

UnlockNext ==
    \E c \in Ctx :
        \/ MutexLock(c)
        \/ MutexGuardDerefMut(c)
        \/ MutexGuardDrop(c)
        \/ MutexUnlock(c)

\* a context that holds a guard calls lock() on the same mutex (the first
\* swap of the loop): code that runs on the holder's stack, such as an
\* interrupt handler, so the holder does not run until lock() returns
MutexLockAgain(c) ==
    /\ mtx_pc[c] \in {"holding", "used"}
    /\ LET r == lock(mtx)
       IN  /\ mtx' = r.mutex
           /\ mtx_pc' = [mtx_pc EXCEPT ![c] =
                             IF r.acquired THEN "holding" ELSE "relocking"]
    /\ mtx_swaps' = [mtx_swaps EXCEPT ![c] = (@ + 1) % 2]
    /\ UNCHANGED mtx_sched
    /\ UNCHANGED <<ringVars, rxVars, txVars, macVars>>
    /\ UNCHANGED callVars
    /\ UNCHANGED pureVars

\* one more swap of that loop
MutexLockAgainSpin(c) ==
    /\ mtx_pc[c] = "relocking"
    /\ LET r == lock(mtx)
       IN  /\ mtx' = r.mutex
           /\ mtx_pc' = [mtx_pc EXCEPT ![c] =
                             IF r.acquired THEN "holding" ELSE "relocking"]
    /\ mtx_swaps' = [mtx_swaps EXCEPT ![c] = (@ + 1) % 2]
    /\ UNCHANGED mtx_sched
    /\ UNCHANGED <<ringVars, rxVars, txVars, macVars>>
    /\ UNCHANGED callVars
    /\ UNCHANGED pureVars

ReentrantNext ==
    \E c \in Ctx :
        \/ MutexLock(c)
        \/ MutexGuardDerefMut(c)
        \/ MutexGuardDrop(c)
        \/ MutexLockAgain(c)
        \/ MutexLockAgainSpin(c)

(***************************************************************************)
(* The MAC operations a caller may use at any time: status(), mac_addr()   *)
(* and disable_irq() (src/src/mac.rs).  The status register is read-only   *)
(* and changes under the device; the two filter registers ralh_0_15[0] and *)
(* ralh_0_15[1] (ral, rah) hold what the device loaded at power-on.        *)
(***************************************************************************)
\* Mac::status: the MacStatus decoded from the extracted status register
Mac_status_lu2(m) ==
    LET speed == FieldNum(m.status, 6, 2)
    IN  [speed |-> IF speed = 2 THEN "Mb1000"
                   ELSE IF speed = 1 THEN "Mb100" ELSE "Mb10",
         link_up |-> 2 \in m.status,
         full_duplex |-> 0 \in m.status,
         phy_reset_asserted |-> 10 \in m.status]

Mac_status(m) ==
    LET speed == FieldNum(m.status, 6, 2)
    IN  [speed |-> IF speed = 2 THEN "Mb1000"
                   ELSE IF speed = 1 THEN "Mb100" ELSE "Mb10",
         link_up |-> 1 \in m.status,
         full_duplex |-> 0 \in m.status,
         phy_reset_asserted |-> 10 \in m.status]

\* (mac_h as u64) << 32 | mac_l as u64, as the set of its one-bits
u64_of(mac_h, mac_l) == {b + 32 : b \in mac_h} \cup mac_l

\* impl From<u64> for MacAddr: byte i is bits 8i+7 .. 8i of the value
MacAddr_from_be(value) == [i \in 0 .. 5 |-> FieldNum(value, 8 * (5 - i), 8)]

MacAddr_from(value) == [i \in 0 .. 5 |-> FieldNum(value, 8 * i, 8)]

\* Mac::mac_addr
mac_addr(m) == MacAddr_from(u64_of(m.rah, m.ral))

\* the values the device shows in the status register
StatusWords == SUBSET {0, 1, 6, 7, 10, 19}

\* the values the device loaded into the filter registers
RalWords == {{1, 8, 17, 24, 31}, {0, 2, 9, 20, 30}}

RahWords == {{0, 9, 15}, {0, 9, 15, 16, 31}, {3, 8, 20}}

NoMacStatus ==
    [speed |-> "Mb10", link_up |-> FALSE, full_duplex |-> FALSE,
     phy_reset_asserted |-> FALSE]

MacIdle ==
    [op |-> "none", status |-> NoMacStatus,
     addr |-> [i \in 0 .. 5 |-> 0], n |-> 0]

CallInit == mac_ret = MacIdle /\ teardowns = [rx |-> FALSE, tx |-> FALSE]

\* MacInit with the filter registers as some device loaded them
MacPowerOn ==
    /\ mac \in {[Mac_new EXCEPT !.ral = l, !.rah = h] :
                    l \in RalWords, h \in RahWords}
    /\ phy = Phy_new(0)
    /\ phy_dev = [r \in {PHY_CONTROL, PHY_STATUS} |-> {}]
    /\ open_step = 1
    /\ open_pc = "new"
    /\ open_err = "none"
    /\ polls = 0
    /\ spins = 0
    /\ open_obs = NoObs
    /\ open_trace = << >>

MacCallStatus ==
    /\ mac_ret' = [MacIdle EXCEPT !.op = "status", !.status = Mac_status(mac),
                                  !.n = 1]
    /\ UNCHANGED teardowns
    /\ UNCHANGED <<ringVars, rxVars, txVars, macVars, mtxVars>>
    /\ UNCHANGED pureVars

MacCallMacAddr ==
    /\ mac_ret' = [MacIdle EXCEPT !.op = "mac_addr", !.addr = mac_addr(mac),
                                  !.n = 1]
    /\ UNCHANGED teardowns
    /\ UNCHANGED <<ringVars, rxVars, txVars, macVars, mtxVars>>
    /\ UNCHANGED pureVars

\* disable_irq() outside the bring-up
MacCallDisableIrq ==
    /\ mac' = disable_irq(mac)
    /\ mac_ret' = [MacIdle EXCEPT
                      !.op = "disable_irq",
                      !.n = IF mac_ret.op = "disable_irq" /\ mac_ret.n < MaxCalls
                            THEN mac_ret.n + 1
                            ELSE IF mac_ret.op = "disable_irq" THEN mac_ret.n
                            ELSE 1]
    /\ UNCHANGED <<phy, phy_dev, open_step, open_pc, open_err, polls, spins,
                   open_obs, open_trace>>
    /\ UNCHANGED teardowns
    /\ UNCHANGED <<ringVars, rxVars, txVars, mtxVars>>
    /\ UNCHANGED pureVars

\* the device changes what the status register shows
HwStatus(w) ==
    /\ mac.status # w
    /\ mac' = [mac EXCEPT !.status = w]
    /\ UNCHANGED <<phy, phy_dev, open_step, open_pc, open_err, polls, spins,
                   open_obs, open_trace>>
    /\ UNCHANGED <<ringVars, rxVars, txVars, mtxVars, callVars>>
    /\ UNCHANGED pureVars

MacNext ==
    \/ MacCallStatus
    \/ MacCallMacAddr
    \/ MacCallDisableIrq
    \/ \E w \in StatusWords : HwStatus(w)

(***************************************************************************)
(* Repeated teardown.  The registers of a queue outlive the ring object    *)
(* built over them: once a ring is dropped and released, the same teardown *)
(* write can reach them again, any number of times, from further ring      *)
(* objects of the same queue index being dropped.  The fields of the first *)
(* ring are released by its own drop glue alone.  disable_irq() is called  *)
(* any number of times meanwhile.                                          *)
(***************************************************************************)
RxTeardownAgain ==
    /\ rx_pc = "released"
    /\ rx_io' = RxRing_drop(rx_io)
    /\ teardowns' = [teardowns EXCEPT !.rx = TRUE]
    /\ UNCHANGED <<rx, rx_hw, rx_pc, rx_ret, rx_next, rx_posted, rx_delivered,
                   rx_freed, mac_ret>>
    /\ UNCHANGED <<ringVars, txVars, macVars, mtxVars>>
    /\ UNCHANGED pureVars

TxTeardownAgain ==
    /\ tx_pc = "released"
    /\ tx_io' = TxRing_drop(tx_io)
    /\ teardowns' = [teardowns EXCEPT !.tx = TRUE]
    /\ UNCHANGED <<tx, tx_hw, tx_pc, tx_ret, tx_next, tx_freed, mac_ret>>
    /\ UNCHANGED <<ringVars, rxVars, macVars, mtxVars>>
    /\ UNCHANGED pureVars

IdemNext ==
    \/ QueueNext
    \/ RxTeardownAgain
    \/ TxTeardownAgain
    \/ MacCallDisableIrq

(***************************************************************************)
(* The bring-up and the queue allocation against an ideal device: the      *)
(* reset bits read back clear at the next poll, every read of MDIC shows   *)
(* READY, and a queue enable bit reads back set once written.  A poll of   *)
(* the driver therefore runs only after the device has answered.  When the *)
(* PHY completes auto-negotiation, and what the status register shows, is  *)
(* left to the device.                                                     *)
(***************************************************************************)
\* what the status register shows to status()
LinkWords == {{}, {1}}

IdealResetPoll == mac.ctrl \cap {26, 31} = {} /\ MacResetPoll

IdealControlReadPoll(f) == 28 \in mac.mdic /\ PhyControlReadPoll(f)

IdealControlWritePoll(f) == 28 \in mac.mdic /\ PhyControlWritePoll(f)

IdealStatusPoll == 28 \in mac.mdic /\ PhyStatusPoll

IdealRxNewPoll == rx_hw.enabled /\ RxNewPoll

IdealTxNewPoll == tx_hw.enabled /\ TxNewPoll

IdealHwResetClear == HwResetClear({26, 31})

IdealHwMdicComplete == HwMdicComplete("ready")

\* the steps of the driver and the answers of the ideal device
IdealProgress ==
    \/ \E chip \in PhyChips : PhyNew(chip[1], chip[2])
    \/ MacDisableIrq
    \/ MacResetWrite
    \/ IdealResetPoll
    \/ \E f \in {"power_up", "enable_auto_negotiation"} : PhyControlRead(f)
    \/ \E f \in {"power_up", "enable_auto_negotiation"} : IdealControlReadPoll(f)
    \/ \E f \in {"power_up", "enable_auto_negotiation"} : PhyControlWrite(f)
    \/ \E f \in {"power_up", "enable_auto_negotiation"} : IdealControlWritePoll(f)
    \/ MacLinkUp
    \/ PhyStatusRead
    \/ IdealStatusPoll
    \/ MacEnableRxTx
    \/ IdealHwResetClear
    \/ IdealHwMdicComplete
    \/ RxNewDisable
    \/ RxNewProgram
    \/ IdealRxNewPoll
    \/ RxHwEnable
    \/ RxHwDisable
    \/ TxNewDisable
    \/ TxNewProgram
    \/ IdealTxNewPoll
    \/ TxHwEnable
    \/ TxHwDisable

IdealNext ==
    \/ IdealProgress
    \/ HwNegotiate
    \/ \E w \in LinkWords : HwStatus(w)
    \/ MacCallStatus

(***************************************************************************)
(* Pure functions: the baud divisor of the UART (src/src/uart/pl011.rs)    *)
(* and the text form of a MacAddr (src/src/mac.rs).                        *)
(*                                                                         *)
(* get_ti_tf computes in u32.  A u32 that may exceed 2^31 - 1 is held as   *)
(* its two 16-bit halves [hi, lo].  A u32 operation that overflows panics  *)
(* in a build with overflow checks and wraps in a build without them.      *)
(***************************************************************************)
\* a number below 2^31 as a u32
u32_of(v) == [hi |-> v \div Pow2(16), lo |-> v % Pow2(16)]

\* tf * 64 in u32, for tf below 2^31: the wrapped product and whether the
\* multiplication overflowed
mul64(tf) ==
    [val |-> [hi |-> (tf \div Pow2(10)) % Pow2(16), lo |-> (tf % Pow2(10)) * 64],
     overflow |-> tf >= Pow2(26)]

\* a + b in u32
add_u32(a, b) ==
    LET lo == a.lo + b.lo
        hi == a.hi + b.hi + (lo \div Pow2(16))
    IN  [val |-> [hi |-> hi % Pow2(16), lo |-> lo % Pow2(16)],
         overflow |-> hi >= Pow2(16)]

\* bit i of a u32
bit_u32(a, i) ==
    IF i >= 16 THEN (a.hi \div Pow2(i - 16)) % 2 ELSE (a.lo \div Pow2(i)) % 2

\* a / d in u32 for a divisor below 2^30, by long division from bit i down:
\* q and r are the quotient and the remainder of the bits above i
RECURSIVE div_u32(_, _, _, _, _)
div_u32(a, d, i, q, r) ==
    IF i < 0 THEN q
    ELSE LET r2 == 2 * r + bit_u32(a, i)
         IN  IF r2 >= d THEN div_u32(a, d, i - 1, 2 * q + 1, r2 - d)
             ELSE div_u32(a, d, i - 1, 2 * q, r2)

\* PhytiumUart::get_ti_tf, for a baud rate below 2^26 (16 * baude_rate does
\* not overflow) and a clock below 2^31
get_ti_tf(clock_hz, baude_rate, checked) ==
    LET baude_rate_16 == 16 * baude_rate
        ti == clock_hz \div baude_rate_16
        tf == clock_hz % baude_rate_16
        m == mul64(tf)
        a == add_u32(m.val, u32_of(baude_rate_16 \div 2))
    IN  IF checked /\ (m.overflow \/ a.overflow)
        THEN [panic |-> TRUE, ti |-> 0, tf |-> 0]
        ELSE [panic |-> FALSE, ti |-> ti,
              tf |-> div_u32(a.val, baude_rate_16, 31, 0, 0)]

\* the clocks and baud rates a caller passes to init_no_irq / init_irq
Clocks ==
    {1843200, 3686400, 7372800, 14745600, 24000000, 33000000, 48000000,
     50000000, 100000000, 200000000}

Rates ==
    {1200, 9600, 19200, 38400, 57600, 115200, 230400, 460800, 921600,
     1500000, 3000000, 8000000}

UartIdle(clock, rate, checked) ==
    [clock |-> clock, rate |-> rate, checked |-> checked, called |-> FALSE,
     ret |-> [panic |-> FALSE, ti |-> 0, tf |-> 0]]

\* the sixteen digits of {:x}
HexDigits ==
    <<"0", "1", "2", "3", "4", "5", "6", "7", "8", "9", "a", "b", "c", "d",
      "e", "f">>

\* {:02x} of a u8, as its characters
fmt_02x_nopad(b) ==
    IF b < 16 THEN <<HexDigits[b + 1]>>
    ELSE <<HexDigits[(b \div 16) + 1], HexDigits[(b % 16) + 1]>>

fmt_02x(b) == <<HexDigits[(b \div 16) + 1], HexDigits[(b % 16) + 1]>>

\* impl Display for MacAddr: the characters written
MacAddr_fmt(bytes) ==
    fmt_02x(bytes[0]) \o <<":">> \o fmt_02x(bytes[1]) \o <<":">>
        \o fmt_02x(bytes[2]) \o <<":">> \o fmt_02x(bytes[3]) \o <<":">>
        \o fmt_02x(bytes[4]) \o <<":">> \o fmt_02x(bytes[5])

\* MacAddr::new(bytes)
MacAddr_new(bytes) == [i \in 0 .. 5 |-> bytes[i + 1]]

\* the addresses formatted
MacAddrs ==
    {MacAddr_new(<<1, 2, 3, 4, 5, 6>>),
     MacAddr_new(<<0, 0, 0, 0, 0, 0>>),
     MacAddr_new(<<255, 255, 255, 255, 255, 255>>),
     MacAddr_new(<<222, 173, 190, 239, 10, 160>>),
     MacAddr_new(<<82, 84, 0, 18, 52, 86>>),
     MacAddr_new(<<16, 15, 171, 205, 9, 144>>)}

FmtIdle(addr) == [addr |-> addr, called |-> FALSE, text |-> << >>]

\* no pure function is under study
PureIdle ==
    /\ uart = UartIdle(100000000, 115200, FALSE)
    /\ fmt = FmtIdle(MacAddr_new(<<1, 2, 3, 4, 5, 6>>))

\* the arguments of the calls
PureInit ==
    /\ uart \in {UartIdle(c, r, k) : c \in Clocks, r \in Rates, k \in BOOLEAN}
    /\ fmt \in {FmtIdle(a) : a \in MacAddrs}

UartGetTiTf ==
    /\ ~uart.called
    /\ uart' = [uart EXCEPT !.called = TRUE,
                            !.ret = get_ti_tf(uart.clock, uart.rate, uart.checked)]
    /\ UNCHANGED fmt
    /\ UNCHANGED <<ringVars, rxVars, txVars, macVars, mtxVars, callVars>>

MacAddrDisplay ==
    /\ ~fmt.called
    /\ fmt' = [fmt EXCEPT !.called = TRUE, !.text = MacAddr_fmt(fmt.addr)]
    /\ UNCHANGED uart
    /\ UNCHANGED <<ringVars, rxVars, txVars, macVars, mtxVars, callVars>>

PureNext ==
    \/ UartGetTiTf
    \/ MacAddrDisplay

(***************************************************************************)
(* Specifications: the bare ring, the receive queue, the transmit queue,   *)
(* and the queue pair.  Every ring starts as its constructor leaves it.    *)
(***************************************************************************)
Init == RingInit /\ RxInit /\ TxInit /\ MacInit /\ MtxInit /\ CallInit /\ PureIdle

\* before the bring-up and the queue allocation
OpenInit ==
    RingInit /\ RxUnborn /\ TxUnborn /\ MacInit /\ MtxInit /\ CallInit /\ PureIdle

\* the mutex before any context has called lock(), under either scheduler
MutexInit ==
    RingInit /\ RxInit /\ TxInit /\ MacInit /\ MtxAnySched /\ CallInit /\ PureIdle

\* the MAC of some device, before any call
MacAnyInit ==
    RingInit /\ RxInit /\ TxInit /\ MacPowerOn /\ MtxInit /\ CallInit /\ PureIdle

SpecRing == Init /\ [][RingNext]_vars

SpecRx == Init /\ [][RxNext]_vars

SpecTx == Init /\ [][TxNext]_vars

SpecQueue == Init /\ [][QueueNext]_vars

SpecEither == Init /\ [][EitherNext]_vars

SpecOpen == OpenInit /\ [][OpenNext]_vars

\* the two constructors of a queue, write by write, and the first traffic
NewInit ==
    RingInit /\ RxStale /\ TxStale /\ MacInit /\ MtxInit /\ CallInit /\ PureIdle

SpecNew == NewInit /\ [][NewNext]_vars

SpecMac == MacAnyInit /\ [][MacNext]_vars

SpecIdem == Init /\ [][IdemNext]_vars

\* contexts that also call the public unlock() without holding a guard
SpecUnlock == Init /\ [][UnlockNext]_vars

\* contexts that also call lock() while they hold a guard; every context
\* inside lock() keeps executing swaps
SpecReentrant ==
    /\ Init
    /\ [][ReentrantNext]_vars
    /\ \A c \in Ctx :
          /\ SF_vars(MutexLock(c))
          /\ WF_vars(MutexGuardDrop(c))
          /\ WF_vars(MutexLockAgainSpin(c))

\* the pure functions, before they are applied to some arguments
PureAnyInit ==
    RingInit /\ RxInit /\ TxInit /\ MacInit /\ MtxInit /\ CallInit /\ PureInit

SpecPure == PureAnyInit /\ [][PureNext]_vars

\* the driver keeps running and the ideal device keeps answering
SpecIdeal == OpenInit /\ [][IdealNext]_vars /\ WF_vars(IdealProgress)

\* every context is scheduled again and again: a context in lock() keeps
\* executing swaps, and a guard is dropped at the end of its scope
SpecMutex ==
    /\ MutexInit
    /\ [][MutexNext]_vars
    /\ \A c \in Ctx : SF_vars(MutexLock(c)) /\ WF_vars(MutexGuardDrop(c))

(***************************************************************************)
(* Properties.                                                             *)
(***************************************************************************)
\* the raw Descriptor-Done bit of the descriptor the last receive() harvested
RxRetDD == 0 \in rx_ret.desc.w2

\* the raw Descriptor-Done bit of the descriptor the last transmit() reclaimed
TxRetDD == 0 \in tx_ret.desc.w3

\* C1: over any add_desc / get_available calls and head advances within the
\* posted descriptors, the number of posted-but-not-harvested descriptors,
\* which is (producer register - consumer mirror) mod N, never exceeds N-1.
C1_OutstandingAtMostNMinus1 ==
    /\ Len(ring_out) <= desc_table_len(ring) - 1
    /\ Len(ring_out) =
          (ring_io[ring.tail_reg] - ring.mirror_head) % desc_table_len(ring)

\* C1 witness: the ring is full after wrapping around and add_desc was tried
C1_Witness ==
    /\ Len(ring_out) = desc_table_len(ring) - 1
    /\ ring.mirror_head > 0
    /\ ring_io[ring.tail_reg] < ring.mirror_head
    /\ ring_ret.op = "add_desc"

\* C2: add_desc returns the ring-full error exactly when N-1 descriptors are
\* outstanding, i.e. iff (producer + 1) mod N equals the consumer mirror.
C2_FullIffNMinus1 ==
    ring_ret.op = "add_desc" =>
        /\ (~ring_ret.ok) <=> (ring_ret.pre_out = desc_table_len(ring) - 1)
        /\ (~ring_ret.ok) <=>
              ((ring_ret.pre_tail + 1) % desc_table_len(ring) = ring_ret.pre_head)

\* C2 witness: add_desc was rejected on a ring that had wrapped around
C2_Witness ==
    /\ ring_ret.op = "add_desc"
    /\ ~ring_ret.ok
    /\ ring_ret.pre_head > 0

\* C3: transmit() frees a stored buffer only when the Descriptor-Done bit of
\* that slot's write-back descriptor is set.
C3_FreedOnlyWhenDone == (tx_ret.reclaimed # None) => TxRetDD

\* C4: a metadata slot of RxRing is set to Some only when it is None, and
\* becomes None only when receive() returns the buffer it held.
C4_SlotCycle ==
    [][\A i \in Slots :
          (rx.mete_ls[i] # rx'.mete_ls[i]) =>
              \/ rx.mete_ls[i] = None
              \/ (rx'.mete_ls[i] = None /\ rx_ret'.pkt = rx.mete_ls[i])]_vars

\* C5: the metadata table of RxRing never holds more than N-1 buffers.
C5_PopulatedAtMostNMinus1 == Cardinality(Populated(rx.mete_ls)) <= RingN - 1

\* C6: RxRing's buffers and descriptor memory are released only once the
\* cleared queue-enable bit has taken effect in the device.
C6_ReleasedOnlyWhenDisabled == (rx_pc = "released") => ~rx_hw.enabled

\* C7: when a ring is torn down, the register write clearing the queue
\* enable bit has happened by the time its buffers and descriptor table are
\* released.
C7_EnableClearedBeforeRelease ==
    /\ (rx_pc = "released") => RXDCTL_ENABLE(rx_io[RXDCTL]) = 0
    /\ (tx_pc = "released") => TXDCTL_ENABLE(tx_io[TXDCTL]) = 0

\* C7 witness: both rings were released while they still held buffers
C7_Witness ==
    /\ rx_pc = "released"
    /\ tx_pc = "released"
    /\ Held(rx.mete_ls) # {}
    /\ Held(tx.meta_ls) # {}

\* C8: receive() returns a packet exactly when get_available reported a slot
\* whose Descriptor-Done bit is set, and the packet is the buffer posted at
\* that slot; otherwise it returns None.
C8_ReceiveOnlyDone ==
    (rx_ret.called /\ rx_pc # "panicked") =>
        /\ (rx_ret.pkt # None) <=> (rx_ret.ga /\ RxRetDD)
        /\ (rx_ret.pkt # None) => (rx_ret.pkt = rx_ret.at_slot)

\* C8 witness: receive() returned the buffer of slot 0 after the ring had
\* wrapped around
C8_Witness ==
    /\ rx_ret.called
    /\ rx_ret.pkt # None
    /\ rx_ret.idx = 0
    /\ Len(rx_delivered) > 1

\* C9: receive() returns None for a harvested slot whose write-back
\* descriptor has error bits set.
C9_NoPacketOnError ==
    (rx_ret.called /\ rx_ret.ga /\ AdvRxDescWB_has_errors(rx_ret.desc)) =>
        rx_ret.pkt = None

\* C10: receive() never returns the same packet instance twice.
C10_NeverTwice ==
    \A i, j \in 1 .. Len(rx_delivered) :
        (i # j) => (rx_delivered[i] # rx_delivered[j])

\* C10 witness: more packets were returned than the ring has slots
C10_Witness == Len(rx_delivered) > RingN

\* the slot get_available would report to the next receive() / transmit()
RxAvail == get_available(rx.base, rx_io).res

TxAvail == get_available(tx.base, tx_io).res

\* C11: whenever get_available reports a slot to receive() with the
\* Descriptor-Done bit set, or reports a slot to transmit(), the metadata
\* table entry of that slot is populated, so neither expect() panics, as long
\* as the device advances the head register only over posted descriptors.
C11_PopulatedWhenReported ==
    /\ rx_pc # "panicked"
    /\ tx_pc # "panicked"
    /\ (rx_pc = "live" /\ RxAvail.some /\ 0 \in RxAvail.desc.w2) =>
           rx.mete_ls[RxAvail.idx] # None
    /\ (tx_pc = "live" /\ TxAvail.some) => tx.meta_ls[TxAvail.idx] # None

\* C11 witness: after the ring wrapped around, transmit() reclaimed the
\* buffer of a slot it had reclaimed before (slot 0)
C11_Witness ==
    /\ tx_ret.called
    /\ tx_ret.ga
    /\ tx_ret.idx = 0
    /\ tx_ret.reclaimed > RingN
    /\ tx_pc = "live"

\* C12: a rejected add_desc has no side effects.  In a receive() / transmit()
\* call whose add_desc returned the ring-full error, the descriptor table,
\* the registers (the tail register among them), both mirrors and the
\* metadata table are what they were when add_desc was called, that is,
\* what the harvest step of the same call left.
C12_RejectedNoSideEffects ==
    [][/\ (rx_next' # rx_next /\ ~rx_ret'.posted) =>
             /\ rx'.base = get_available(rx.base, rx_io).ring
             /\ rx'.base.desc_table = rx.base.desc_table
             /\ rx'.base.mirror_tail = rx.base.mirror_tail
             /\ rx_io' = rx_io
             /\ rx'.mete_ls = IF rx_ret'.pkt # None
                              THEN take(rx.mete_ls, rx_ret'.idx)
                              ELSE rx.mete_ls
       /\ (tx_next' # tx_next /\ ~tx_ret'.ok) =>
             /\ tx'.base = get_available(tx.base, tx_io).ring
             /\ tx'.base.desc_table = tx.base.desc_table
             /\ tx'.base.mirror_tail = tx.base.mirror_tail
             /\ tx_io' = tx_io
             /\ tx'.meta_ls = IF tx_ret'.ga
                              THEN take(tx.meta_ls, tx_ret'.idx)
                              ELSE tx.meta_ls]_vars

\* C12 witness: receive() had its add_desc rejected on a ring that had
\* wrapped around
C12_Witness ==
    /\ rx_ret.called
    /\ ~rx_ret.posted
    /\ rx_pc = "live"
    /\ rx.base.mirror_head > 0
    /\ Len(rx_delivered) > 0

\* C13: a successful add_desc(d) writes d into the slot at the current
\* producer position t, sets the tail register to (t+1) mod N and returns t;
\* the consumer mirror, the head register and every other descriptor slot
\* are unchanged.
C13_AddDescEffect ==
    [][\A d \in RingDescs :
          (RingAddDesc(d) /\ ring_ret'.ok) =>
              LET t == ring_io[ring.tail_reg]
              IN  /\ ring'.desc_table[t] = d
                  /\ ring_io'[ring.tail_reg] = (t + 1) % desc_table_len(ring)
                  /\ ring_ret'.slot = t
                  /\ ring'.mirror_head = ring.mirror_head
                  /\ ring_io'[ring.head_reg] = ring_io[ring.head_reg]
                  /\ \A i \in DOMAIN ring.desc_table :
                         (i # t) => (ring'.desc_table[i] = ring.desc_table[i])]_vars

\* C13 witness: add_desc succeeded at the last slot, wrapping the tail
\* register to 0, on a table whose slot 0 holds the other descriptor
C13_Witness ==
    /\ ring_ret.op = "add_desc"
    /\ ring_ret.ok
    /\ ring_ret.slot = desc_table_len(ring) - 1
    /\ ring_io[ring.tail_reg] = 0
    /\ ring.desc_table[0] # ring.desc_table[ring_ret.slot]

\* C14: get_available returns None and changes nothing when the head
\* register equals the consumer mirror; otherwise it returns the descriptor
\* stored at the mirror index together with that index and advances the
\* mirror by exactly one (mod N), however far the head register is ahead.
C14_GetAvailableEffect ==
    [][RingGetAvailable =>
          LET m == ring.mirror_head
          IN  IF ring_io[ring.head_reg] = m
              THEN /\ ~ring_ret'.ok
                   /\ ring' = ring
                   /\ ring_io' = ring_io
              ELSE /\ ring_ret'.ok
                   /\ ring_ret'.desc = ring.desc_table[m]
                   /\ ring_ret'.slot = m
                   /\ ring' = [ring EXCEPT !.mirror_head =
                                   (m + 1) % desc_table_len(ring)]
                   /\ ring_io' = ring_io]_vars

\* C14 witness: get_available returned a posted descriptor while the head
\* register was two positions ahead of the mirror
C14_Witness ==
    /\ ring_ret.op = "get_available"
    /\ ring_ret.ok
    /\ ring_ret.desc # ZeroDesc
    /\ ring_io[ring.head_reg] = (ring_ret.pre_head + 2) % desc_table_len(ring)
    /\ ring.mirror_head = (ring_ret.pre_head + 1) % desc_table_len(ring)

IsPrefix(a, b) == Len(a) <= Len(b) /\ a = SubSeq(b, 1, Len(a))

\* the error a failing bring-up step returns
StepError(step) ==
    CASE step = "reset" -> "ResetTimeout"
      [] step \in {"power_up", "enable_auto_negotiation"} -> "PhyAccessError"
      [] step = "wait_for_negotiate" -> "NoPhyLink"
      [] OTHER -> "none"

\* C15: the bring-up runs disable_irq, reset, disable_irq, power_up,
\* enable_auto_negotiation, link_up, wait_for_negotiate, enable_rx_tx in this
\* order; when a step fails no later step has been called and that step's
\* error is returned: the second disable_irq is called only after a poll of
\* reset has read both reset bits clear, and the RX-enable and TX-enable bits
\* are set only after a poll of wait_for_negotiate has observed
\* auto-negotiation complete.
C15_BringUpOrder ==
    /\ IsPrefix(open_trace, BringUp)
    /\ (open_pc = "failed") =>
           /\ open_trace = SubSeq(BringUp, 1, open_step)
           /\ open_err # "none"
           /\ open_err = StepError(BringUp[open_step])
    /\ (open_pc # "failed") => open_err = "none"
    /\ (open_pc = "done") => open_trace = BringUp
    /\ (BringUp[open_step] = "disable_irq" /\ open_step > 1 /\ open_pc = "call") =>
           open_obs.seen
    /\ (1 \in mac.rctl \/ 1 \in mac.tctl) =>
           /\ open_trace = BringUp
           /\ open_obs.seen

\* C15 witness: the bring-up completed: interrupts masked, SLU set, the PHY
\* powered up with auto-negotiation restarted, RXEN and EN set
C15_Witness ==
    /\ open_pc = "done"
    /\ 1 \in mac.rctl
    /\ 1 \in mac.tctl
    /\ mac.ctrl = {6}
    /\ mac.eimc = 0 .. 31
    /\ phy_dev[PHY_CONTROL] = {6, 9, 12}

\* C16: Mac::reset writes the RST and PHY_RST bits, then polls the control
\* register at most 100 times; the first poll that reads both bits clear
\* returns Ok, every other poll counts as one of the 100 attempts, and the
\* 100th unsuccessful poll returns the ResetTimeout error, whatever the
\* device does.
C16_ResetBounded ==
    [][/\ (Running("reset") /\ open_pc = "call" /\ open_pc' # "call") =>
             /\ mac'.ctrl = {26, 31}
             /\ open_pc' = "poll"
             /\ polls' = 0
       /\ (Running("reset") /\ open_pc = "poll") =>
             /\ polls < RESET_TRIES
             /\ (polls' # polls \/ open_pc' # "poll") =>
                   IF mac.ctrl \cap {26, 31} = {}
                   THEN /\ open_pc' = "call"
                        /\ open_step' = open_step + 1
                        /\ open_err' = "none"
                   ELSE /\ polls' = polls + 1
                        /\ open_step' = open_step
                        /\ IF polls' < RESET_TRIES
                           THEN open_pc' = "poll" /\ open_err' = "none"
                           ELSE open_pc' = "failed" /\ open_err' = "ResetTimeout"]_vars

\* C16 witness: reset timed out after 100 polls on a device that cleared RST
\* but never PHY_RST
C16_Witness ==
    /\ open_err = "ResetTimeout"
    /\ polls = RESET_TRIES
    /\ ~open_obs.seen
    /\ mac.ctrl = {31}

\* C17: Phy::wait_for_negotiate polls the PHY status register at most 500
\* times; the first poll that shows the auto-negotiation-complete bit
\* (bit 5) returns Ok, every other poll counts as one of the 500 attempts,
\* and the 500th poll that does not show it fails with NoPhyLink.
C17_NegotiateBounded ==
    [][/\ (Running("wait_for_negotiate") /\ open_pc \in {"call", "sleep"}
            /\ open_pc' = "neg_poll") =>
             /\ mac'.mdic = mdic_read_word(phy.addr, PHY_STATUS)
             /\ polls' = IF open_pc = "call" THEN 0 ELSE polls
       /\ (Running("wait_for_negotiate") /\ open_pc \in {"neg_poll", "sleep"}) =>
             /\ polls < NEGOTIATE_TRIES
       /\ (Running("wait_for_negotiate") /\ open_pc = "neg_poll"
            /\ open_pc' # "neg_poll") =>
             IF 28 \in mac.mdic /\ 5 \in mac.mdic
             THEN /\ open_pc' = "call"
                  /\ open_step' = open_step + 1
                  /\ open_err' = "none"
             ELSE /\ polls' = polls + 1
                  /\ open_step' = open_step
                  /\ IF polls' < NEGOTIATE_TRIES
                     THEN open_pc' = "sleep" /\ open_err' = "none"
                     ELSE open_pc' = "failed" /\ open_err' = "NoPhyLink"]_vars

\* C17 witness: wait_for_negotiate failed after 500 polls that read the
\* status register without the bit
C17_Witness ==
    /\ open_err = "NoPhyLink"
    /\ polls = NEGOTIATE_TRIES
    /\ ~open_obs.seen
    /\ 28 \in mac.mdic
    /\ 30 \notin mac.mdic
    /\ MDIC_DATA(mac.mdic) = {3}

\* the positions inside the loop of mdic_read / mdic_write
MdicPolling == {"read_poll", "write_poll", "neg_poll"}

\* C18: mdic_read / mdic_write write one transaction word (PHY address,
\* register address, opcode, READY clear, and for a write the data) to MDIC
\* and then poll it.  A poll that reads READY set returns success, mdic_read
\* with the low 16 bits of the value that poll read; a poll that reads E set
\* (READY clear) returns the PhyAccessError error; any other poll polls again.
C18_MdicTransaction ==
    [][/\ (open_pc \notin MdicPolling /\ open_pc' \in MdicPolling) =>
             /\ FieldNum(mac'.mdic, 21, 5) = phy.addr
             /\ FieldNum(mac'.mdic, 16, 5) =
                    (IF open_pc' = "neg_poll" THEN PHY_STATUS ELSE PHY_CONTROL)
             /\ FieldNum(mac'.mdic, 26, 2) =
                    (IF open_pc' = "write_poll" THEN 1 ELSE 2)
             /\ mac'.mdic \cap {28, 29, 30, 31} = {}
             /\ MDIC_DATA(mac'.mdic) =
                    (IF open_pc' = "write_poll" THEN phy.pctrl ELSE {})
       /\ (open_pc \in MdicPolling /\ (open_pc' # open_pc \/ spins' # spins)) =>
             CASE 28 \in mac.mdic ->
                    /\ open_err' # "PhyAccessError"
                    /\ (open_pc = "read_poll") =>
                          /\ open_pc' = "write"
                          /\ phy'.pctrl =
                                IF BringUp[open_step] = "power_up"
                                THEN (mac.mdic \cap (0 .. 15)) \ {11}
                                ELSE (mac.mdic \cap (0 .. 15)) \cup {9, 12}
                    /\ (open_pc = "write_poll") =>
                          open_pc' = "call" /\ open_step' = open_step + 1
                    /\ (open_pc = "neg_poll") =>
                          /\ open_pc' # "neg_poll"
                          /\ (5 \in mac.mdic) <=> (open_pc' = "call")
               [] 28 \notin mac.mdic /\ 30 \in mac.mdic ->
                    IF open_pc = "neg_poll"
                    THEN open_pc' \in {"sleep", "failed"} /\ polls' = polls + 1
                    ELSE /\ open_pc' = "failed"
                         /\ open_err' = "PhyAccessError"
                         /\ phy' = phy
               [] OTHER ->
                    /\ open_pc' = open_pc
                    /\ spins' = spins + 1
                    /\ open_err' = open_err
                    /\ phy' = phy]_vars

\* C18 witness: the mdic_read of enable_auto_negotiation returned the data of
\* a poll that read READY, and the mdic_write of power_up had written the
\* PHY control register before
C18_Witness ==
    /\ Running("enable_auto_negotiation")
    /\ open_pc = "write"
    /\ 28 \in mac.mdic
    /\ phy.pctrl = MDIC_DATA(mac.mdic) \cup {9, 12}
    /\ MDIC_DATA(mac.mdic) = {6}
    /\ phy_dev[PHY_CONTROL] = {6}

\* C19: the loop of mdic_read / mdic_write and the enable-bit loop of
\* RxRing::new / TxRing::new are left only when the device sets the bit they
\* wait for.  While MDIC shows neither READY nor E, no step leaves the MDIC
\* loop, raises an error, or counts a try of an enclosing wait_for; while a
\* queue does not read back enabled, its constructor stays in its loop; and
\* the enable-bit loop is only ever left by returning the ring.
C19_PollingNeverGivesUp ==
    [][/\ (open_pc \in MdicPolling /\ mac.mdic \cap {28, 30} = {}) =>
             /\ open_pc' = open_pc
             /\ open_step' = open_step
             /\ open_err' = open_err
             /\ polls' = polls
       /\ (rx_pc = "enabling" /\ ~rx_hw.enabled) => rx_pc' = "enabling"
       /\ (tx_pc = "enabling" /\ ~tx_hw.enabled) => tx_pc' = "enabling"
       /\ (rx_pc = "enabling") => rx_pc' \in {"enabling", "live"}
       /\ (tx_pc = "enabling") => tx_pc' \in {"enabling", "live"}]_vars

\* C19 witness: the mdic_read inside wait_for_negotiate has polled MaxSpins
\* times without the device answering, in a later try of that wait_for
C19_Witness ==
    /\ open_pc = "neg_poll"
    /\ mac.mdic \cap {28, 30} = {}
    /\ spins = MaxSpins
    /\ polls > 0

\* C20: a transmit(p) that finds the ring full (after its harvest step the
\* slot after the tail is the mirror head) returns the ring-full error, and
\* only then.  The packet p is consumed: it is not in the metadata table, it
\* has been dropped rather than handed back, and neither the descriptor table
\* nor any register was written, so no descriptor carries p's buffer address.
C20_RingFullConsumesPacket ==
    [][(tx_next' # tx_next /\ tx_pc' = "live") =>
          LET p == tx_next'
              full == ((tx_io[TDT] + 1) % RingN) = tx'.base.mirror_head
          IN  /\ full <=> ~tx_ret'.ok
              /\ full =>
                    /\ p \notin Held(tx'.meta_ls)
                    /\ p \in tx_freed'
                    /\ tx'.base.desc_table = tx.base.desc_table
                    /\ tx_io' = tx_io
                    /\ \A i \in Slots :
                          tx'.base.desc_table[i].w0 # Lo32(bus_addr(p))]_vars

\* C20 witness: transmit() was refused on a ring holding RingN - 1 packets,
\* and its packet is gone
C20_Witness ==
    /\ tx_ret.called
    /\ ~tx_ret.ok
    /\ tx_pc = "live"
    /\ tx_next \in tx_freed
    /\ tx_next \notin Held(tx.meta_ls)
    /\ Cardinality(Held(tx.meta_ls)) = RingN - 1

\* C21: RingFull is recoverable.  When the last transmit() returned the
\* ring-full error and the device has since moved the head register past
\* the mirror head, the next transmit() reclaims the packet of the oldest
\* slot, posts its own packet and returns success.
C21_RingFullRecoverable ==
    [][(/\ tx_next' # tx_next
        /\ tx_pc = "live"
        /\ tx_ret.called
        /\ ~tx_ret.ok
        /\ tx_io[TDH] # tx.base.mirror_head) =>
          /\ tx_pc' = "live"
          /\ tx_ret'.ok
          /\ tx_ret'.ga
          /\ tx_ret'.reclaimed = tx.meta_ls[tx.base.mirror_head]
          /\ tx_ret'.reclaimed # None
          /\ tx_ret'.reclaimed \in tx_freed'
          /\ tx'.meta_ls[tx_io[TDT]] = tx_next'
          /\ tx_io'[TDT] = (tx_io[TDT] + 1) % RingN]_vars

\* C21 witness: the call before the last was refused on a full ring (its
\* packet is gone and was never in flight), the last call reclaimed a slot
\* and succeeded, and the ring is full again
C21_Witness ==
    /\ tx_pc = "live"
    /\ tx_ret.called
    /\ tx_ret.ok
    /\ tx_ret.ga
    /\ tx_next >= RingN + 1
    /\ (tx_next - 1) \in tx_freed
    /\ tx_next \in Held(tx.meta_ls)
    /\ Cardinality(Held(tx.meta_ls)) = RingN - 1

\* C22: every receive() call that returns tries to post one fresh buffer,
\* whether or not it harvested a packet.  With room in the ring the slot at
\* the tail gets a descriptor with the buffer's bus address, header address
\* 0 and Descriptor-Done clear, the buffer is stored at that slot and the
\* tail advances by one.  With the ring full the buffer is dropped, the
\* descriptor table and the registers stay as they were, and in both cases
\* the call returns the packet its harvest step took, or nothing.
C22_ReceiveAlwaysPosts ==
    [][(rx_next' # rx_next /\ rx_pc' = "live") =>
          LET fresh == rx_next'
              tail == rx_io[RDT]
              mh == rx.base.mirror_head
              full == ((tail + 1) % RingN) = rx'.base.mirror_head
              harvested == IF rx_io[RDH] # mh /\ 0 \in rx.base.desc_table[mh].w2
                           THEN rx.mete_ls[mh]
                           ELSE None
              kept == IF harvested # None THEN take(rx.mete_ls, mh)
                      ELSE rx.mete_ls
          IN  /\ rx_ret'.pkt = harvested
              /\ rx_ret'.posted <=> ~full
              /\ ~full =>
                    /\ rx'.base.desc_table =
                          [rx.base.desc_table EXCEPT ![tail] =
                              [w0 |-> Lo32(bus_addr(fresh)),
                               w1 |-> Hi32(bus_addr(fresh)),
                               w2 |-> {}, w3 |-> {}]]
                    /\ 0 \notin rx'.base.desc_table[tail].w0
                    /\ rx'.mete_ls = [kept EXCEPT ![tail] = fresh]
                    /\ rx_io' = [rx_io EXCEPT ![RDT] = (tail + 1) % RingN]
                    /\ fresh \notin rx_freed'
              /\ full =>
                    /\ rx'.base.desc_table = rx.base.desc_table
                    /\ rx_io' = rx_io
                    /\ rx'.mete_ls = kept
                    /\ fresh \in rx_freed']_vars

\* C22 witness: an earlier call harvested a packet and posted, calls that
\* harvested nothing posted too, and the last call found the ring full and
\* dropped its buffer
C22_Witness ==
    /\ rx_pc = "live"
    /\ rx_ret.called
    /\ ~rx_ret.posted
    /\ rx_ret.pkt = None
    /\ rx_next \in rx_freed
    /\ Len(rx_delivered) > 0
    /\ Cardinality(Held(rx.mete_ls)) = RingN - 1

\* the slots from the mirror head up to, not including, the tail
TxOutstanding ==
    {i \in Slots :
        ((i - tx.base.mirror_head) % RingN)
            < ((tx_io[TDT] - tx.base.mirror_head) % RingN)}

\* C23: after any transmit() calls and device completions the metadata table
\* of TxRing holds at most N-1 packets: the populated slots are the posted
\* and not yet reclaimed ones.
C23_TxInFlightAtMostNMinus1 ==
    (tx_pc # "panicked") =>
        /\ Cardinality(Populated(tx.meta_ls)) <= RingN - 1
        /\ Cardinality(Held(tx.meta_ls)) = Cardinality(Populated(tx.meta_ls))
        /\ Populated(tx.meta_ls) = TxOutstanding

\* C23 witness: N-1 packets in flight after slots were reclaimed and the
\* tail wrapped around
C23_Witness ==
    /\ tx_pc = "live"
    /\ Cardinality(Populated(tx.meta_ls)) = RingN - 1
    /\ tx_io[TDT] < tx.base.mirror_head
    /\ tx_ret.reclaimed # None
    /\ Cardinality(tx_freed) >= 2

\* C24: the descriptor a successful transmit() of a packet with a buffer of
\* len bytes writes at the tail slot has, in its command/type/length dword,
\* EOP (24), IFCS (25), RS (27) and DEXT (29) set, IC (26), VLE (30) and IDE
\* (31) clear, type 0b11 in bits 23:20 and len in bits 19:0; its first two
\* dwords are the bus address of the packet's buffer.
C24_TxDescriptorFormat ==
    [][\A len \in TxLens :
          (TxTransmit(len) /\ tx_ret'.ok) =>
              LET d == tx'.base.desc_table[tx_io[TDT]]
              IN  /\ {24, 25, 27, 29} \subseteq d.w2
                  /\ d.w2 \cap {26, 28, 30, 31} = {}
                  /\ FieldNum(d.w2, 20, 4) = 3
                  /\ FieldNum(d.w2, 0, 20) = len
                  /\ FieldNum(d.w0, 0, 31) = tx_next' * PACKET_SIZE
                  /\ 31 \notin d.w0
                  /\ d.w1 = {}
                  /\ tx'.meta_ls[tx_io[TDT]] = tx_next']_vars

\* C24 witness: the last slot of the ring holds the descriptor of a
\* 1514-byte packet that transmit() has just posted
C24_Witness ==
    /\ tx_ret.called
    /\ tx_ret.ok
    /\ tx_ret.slot = RingN - 1
    /\ FieldNum(tx.base.desc_table[tx_ret.slot].w2, 0, 20) = 1514
    /\ FieldNum(tx.base.desc_table[tx_ret.slot].w2, 20, 12) = 691
    /\ FieldNum(tx.base.desc_table[tx_ret.slot].w0, 0, 31) = tx_next * PACKET_SIZE

\* the contexts that hold a guard
Holders == {c \in Ctx : mtx_pc[c] \in {"holding", "used"}}

\* C25: mutual exclusion.  In every interleaving of contexts that acquire
\* with lock() and release by dropping the guard, at most one context holds
\* a guard, and the flag is set exactly while one does.
C25_MutualExclusion ==
    /\ Cardinality(Holders) <= 1
    /\ mtx.inner <=> (Holders # {})

\* C25 witness: one context is in its critical section while the others
\* spin in lock(), after earlier critical sections
C25_Witness ==
    /\ \E c \in Ctx :
          /\ mtx_pc[c] = "used"
          /\ \A o \in Ctx \ {c} : mtx_pc[o] = "spinning"
    /\ mtx.data = DataMod - 1

\* C26: no fairness, but no deadlock.  Under the adverse scheduler, which
\* is fair (Victim executes swaps again and again), Victim never acquires
\* while the other contexts acquire and release for ever.  Under either
\* scheduler a swap on a clear flag acquires, and whenever the flag is clear
\* while a context spins, some context acquires.
C26_NoFairnessNoDeadlock ==
    /\ [](mtx_sched = "adverse" => mtx_pc[Victim] \notin {"holding", "used"})
    /\ (mtx_sched = "adverse") =>
          /\ []<>(<<MutexLock(Victim)>>_vars)
          /\ <>[](mtx_pc[Victim] = "spinning")
          /\ []<>(Holders # {})
          /\ []<>(~mtx.inner)
    /\ [][\A c \in Ctx :
            (MutexLock(c) /\ ~mtx.inner) => mtx_pc'[c] = "holding"]_vars
    /\ (~mtx.inner /\ \E c \in Ctx : mtx_pc[c] = "spinning")
           ~> (Holders # {})

\* C26 witness: under the adverse scheduler Victim has executed at least two
\* swaps and still spins, while another context is in a later critical
\* section and a third spins too
C26_Witness ==
    /\ mtx_sched = "adverse"
    /\ mtx_pc[Victim] = "spinning"
    /\ mtx_swaps[Victim] = 0
    /\ mtx.data = DataMod - 1
    /\ \E c \in Ctx \ {Victim} : mtx_pc[c] = "used"
    /\ \E c \in Ctx \ {Victim} : mtx_pc[c] = "spinning"

\* C28: each status() call decodes the status register as it is at the
\* call: full_duplex is bit 0, link_up bit 1, phy_reset_asserted bit 10, and
\* speed is 1000 Mb/s for bits 7:6 = 0b10, 100 Mb/s for 0b01 and 10 Mb/s for
\* 0b00 and 0b11.  The call writes no register and changes nothing else.
C28_StatusDecode ==
    [][MacCallStatus =>
          /\ mac_ret'.op = "status"
          /\ mac_ret'.status.full_duplex <=> (0 \in mac.status)
          /\ mac_ret'.status.link_up <=> (1 \in mac.status)
          /\ mac_ret'.status.phy_reset_asserted <=> (10 \in mac.status)
          /\ mac_ret'.status.speed =
                (CASE 7 \in mac.status /\ 6 \notin mac.status -> "Mb1000"
                   [] 7 \notin mac.status /\ 6 \in mac.status -> "Mb100"
                   [] OTHER -> "Mb10")
          /\ mac' = mac
          /\ UNCHANGED <<ringVars, rxVars, txVars, macVars, mtxVars>>]_vars

\* C28 witness: status() returned link up at 10 Mb/s from speed bits 0b11,
\* for a register that shows neither full duplex nor PHY reset
C28_Witness ==
    /\ mac_ret.op = "status"
    /\ mac.status = {1, 6, 7, 19}
    /\ mac_ret.status =
          [speed |-> "Mb10", link_up |-> TRUE, full_duplex |-> FALSE,
           phy_reset_asserted |-> FALSE]

\* the number held in bits hi .. lo of a register
BitsOf(w, lo, hi) == FieldNum(w, lo, hi - lo + 1)

\* C30: mac_addr() returns six bytes: bytes 0..3 are the low filter
\* register, least significant byte first, bytes 4 and 5 are bits 7:0 and
\* 15:8 of the high filter register; bits 31:16 of the high register do not
\* enter the result.
C30_MacAddrBytes ==
    [][MacCallMacAddr =>
          /\ mac_ret'.op = "mac_addr"
          /\ DOMAIN mac_ret'.addr = 0 .. 5
          /\ mac_ret'.addr[0] = BitsOf(mac.ral, 0, 7)
          /\ mac_ret'.addr[1] = BitsOf(mac.ral, 8, 15)
          /\ mac_ret'.addr[2] = BitsOf(mac.ral, 16, 23)
          /\ mac_ret'.addr[3] = BitsOf(mac.ral, 24, 31)
          /\ mac_ret'.addr[4] = BitsOf(mac.rah, 0, 7)
          /\ mac_ret'.addr[5] = BitsOf(mac.rah, 8, 15)
          /\ mac_ret'.addr =
                mac_addr([mac EXCEPT !.rah = mac.rah \cap (0 .. 15)])]_vars

\* C30 witness: the address of a device whose high filter register has bits
\* above bit 15 set
C30_Witness ==
    /\ mac_ret.op = "mac_addr"
    /\ mac.ral = {1, 8, 17, 24, 31}
    /\ mac.rah = {0, 9, 15, 16, 31}
    /\ mac_ret.addr = [i \in 0 .. 5 |->
                          CASE i = 0 -> 2 [] i = 1 -> 1 [] i = 2 -> 2
                            [] i = 3 -> 129 [] i = 4 -> 1 [] i = 5 -> 130]

\* C29: idempotence.  disable_irq() can always be called, leaves all ones in
\* the interrupt mask-clear register and, called again, changes no register;
\* a teardown write issued again after drop() leaves the queue's registers as
\* they were, with the enable bit clear, and releases nothing; the buffers a
\* ring still holds are released once, by its release, and none of them was
\* released or delivered before.
C29_Idempotence ==
    /\ [](ENABLED MacCallDisableIrq)
    /\ [][MacCallDisableIrq =>
             /\ mac'.eimc = 0 .. 31
             /\ mac' = [mac EXCEPT !.eimc = 0 .. 31]
             /\ mac_ret.op = "disable_irq" => mac' = mac
             /\ open_err' = open_err]_vars
    /\ [](rx_pc \in {"dropped", "released"} => RXDCTL_ENABLE(rx_io[RXDCTL]) = 0)
    /\ [](tx_pc \in {"dropped", "released"} => TXDCTL_ENABLE(tx_io[TXDCTL]) = 0)
    /\ [][RxTeardownAgain =>
             /\ rx_io' = rx_io
             /\ rx_freed' = rx_freed
             /\ rx_pc' = rx_pc]_vars
    /\ [][TxTeardownAgain =>
             /\ tx_io' = tx_io
             /\ tx_freed' = tx_freed
             /\ tx_pc' = tx_pc]_vars
    /\ [][rx_freed' # rx_freed =>
             /\ rx_pc \notin {"released", "panicked"}
             /\ rx_pc' # "released" =>
                   (rx_freed' \ rx_freed) \cap Held(rx'.mete_ls) = {}
             /\ rx_pc' = "released" =>
                   /\ rx_freed' = rx_freed \cup Held(rx.mete_ls)
                   /\ Held(rx.mete_ls) \cap rx_freed = {}
                   /\ \A i \in 1 .. Len(rx_delivered) :
                         rx_delivered[i] \notin Held(rx.mete_ls)]_vars
    /\ [][tx_freed' # tx_freed =>
             /\ tx_pc \notin {"released", "panicked"}
             /\ tx_pc' # "released" =>
                   (tx_freed' \ tx_freed) \cap Held(tx'.meta_ls) = {}
             /\ tx_pc' = "released" =>
                   /\ tx_freed' = tx_freed \cup Held(tx.meta_ls)
                   /\ Held(tx.meta_ls) \cap tx_freed = {}]_vars

\* C29 witness: disable_irq() has been called MaxCalls times in a row and the
\* teardown write has reached both queues again after their drop, both
\* rings having released buffers they held
C29_Witness ==
    /\ mac_ret.op = "disable_irq"
    /\ mac_ret.n = MaxCalls
    /\ mac.eimc = 0 .. 31
    /\ teardowns = [rx |-> TRUE, tx |-> TRUE]
    /\ rx_pc = "released"
    /\ tx_pc = "released"
    /\ Held(rx.mete_ls) # {}
    /\ Held(tx.meta_ls) # {}

\* auto-negotiation is complete in the PHY before a status read of
\* wait_for_negotiate is issued
NegotiatedInTime ==
    /\ Running("wait_for_negotiate")
    /\ open_pc \in {"call", "sleep"}
    /\ 5 \in phy_dev[PHY_STATUS]

\* C27 as stated: against the ideal device the bring-up ends without error
C27_AsStated == open_err = "none"

\* C27: against the ideal device the bring-up never fails with ResetTimeout
\* or PhyAccessError and always ends, and both queue constructors return;
\* it ends without error when auto-negotiation is complete in the PHY before
\* one of the 500 status reads is issued, and with NoPhyLink otherwise; and
\* status() reports link_up once link_up() has run and the status register
\* shows its link-up bit.
C27_IdealBringUp ==
    /\ [](open_err \in {"none", "NoPhyLink"})
    /\ [](open_pc = "failed" =>
            /\ open_err = "NoPhyLink"
            /\ polls = NEGOTIATE_TRIES
            /\ ~open_obs.seen)
    /\ <>(open_pc \in {"done", "failed"})
    /\ <>(rx_pc = "live" /\ tx_pc = "live")
    /\ NegotiatedInTime ~> (open_pc = "done" /\ open_err = "none")
    /\ [](open_pc = "done" =>
            /\ open_trace = BringUp
            /\ 1 \in mac.rctl /\ 1 \in mac.tctl /\ 6 \in mac.ctrl)
    /\ [][(MacCallStatus /\ 6 \in mac.ctrl /\ 1 \in mac.status) =>
             mac_ret'.status.link_up]_vars

\* C27 witness: the bring-up has ended without error, both queues are
\* allocated, and status() has reported the link as up
C27_Witness ==
    /\ open_pc = "done"
    /\ open_err = "none"
    /\ open_trace = BringUp
    /\ rx_pc = "live"
    /\ tx_pc = "live"
    /\ mac_ret.op = "status"
    /\ mac_ret.status.link_up
    /\ 6 \in mac.ctrl
    /\ 1 \in mac.status

\* quotient and remainder of (2^k * r) / d for r < d, by k doublings
RECURSIVE ShiftDiv(_, _, _, _)
ShiftDiv(q, r, d, k) ==
    IF k = 0 THEN [q |-> q, r |-> r]
    ELSE IF 2 * r >= d THEN ShiftDiv(2 * q + 1, 2 * r - d, d, k - 1)
    ELSE ShiftDiv(2 * q, 2 * r, d, k - 1)

\* (clock div (16*rate), (64*(clock mod (16*rate)) + 8*rate) div (16*rate))
\* over the integers
DivisorFormula(clock, rate) ==
    LET d == 16 * rate
        s == ShiftDiv(0, clock % d, d, 6)
    IN  [panic |-> FALSE, ti |-> clock \div d,
         tf |-> s.q + (IF s.r + 8 * rate >= d THEN 1 ELSE 0)]

\* C31: get_ti_tf(clock, rate) returns (clock div (16*rate),
\* (64*(clock mod (16*rate)) + 8*rate) div (16*rate)) whatever the build, and
\* (54, 16) for clock = 100_000_000 and rate = 115200.
C31_DivisorFormula ==
    uart.called =>
        /\ uart.ret = DivisorFormula(uart.clock, uart.rate)
        /\ (uart.clock = 100000000 /\ uart.rate = 115200) =>
               (uart.ret.ti = 54 /\ uart.ret.tf = 16)

\* the value of a lowercase hexadecimal digit, 16 for any other character
HexValue(c) ==
    IF \E d \in 1 .. 16 : HexDigits[d] = c
    THEN (CHOOSE d \in 1 .. 16 : HexDigits[d] = c) - 1
    ELSE 16

\* C32: the text of a MacAddr is its six bytes in index order, each as two
\* lowercase hexadecimal digits (leading zero kept), separated by ':';
\* bytes 01 02 03 04 05 06 give "01:02:03:04:05:06".
C32_MacAddrText ==
    fmt.called =>
        /\ Len(fmt.text) = 17
        /\ \A i \in 0 .. 5 :
              /\ HexValue(fmt.text[3 * i + 1]) < 16
              /\ HexValue(fmt.text[3 * i + 2]) < 16
              /\ 16 * HexValue(fmt.text[3 * i + 1]) + HexValue(fmt.text[3 * i + 2])
                    = fmt.addr[i]
        /\ \A i \in 1 .. 5 : fmt.text[3 * i] = ":"
        /\ fmt.addr = MacAddr_new(<<1, 2, 3, 4, 5, 6>>) =>
              fmt.text = <<"0", "1", ":", "0", "2", ":", "0", "3", ":", "0", "4",
                           ":", "0", "5", ":", "0", "6">>

\* C32 witness: an address with a byte below 16 and bytes with the digits
\* a..f has been formatted
C32_Witness ==
    /\ fmt.called
    /\ fmt.addr = MacAddr_new(<<222, 173, 190, 239, 10, 160>>)
    /\ fmt.text = <<"d", "e", ":", "a", "d", ":", "b", "e", ":", "e", "f", ":",
                    "0", "a", ":", "a", "0">>

\* the slots between the consumer mirror and the producer register: posted
\* and not yet reported by get_available
RxWindow ==
    LET n == desc_table_len(rx.base)
        k == (get_tail(rx.base, rx_io) - rx.base.mirror_head) % n
    IN  {(rx.base.mirror_head + j) % n : j \in 0 .. (k - 1)}

\* the buffers still in the metadata table at a slot the consumer mirror
\* has passed
RxStranded ==
    IF rx_pc \in {"live", "dropped"}
    THEN {rx.mete_ls[i] : i \in Slots \ RxWindow} \ {None}
    ELSE {}

\* C33: a receive() call to which get_available reports a slot whose
\* Descriptor-Done bit is clear advances the consumer mirror past the slot
\* and returns None, leaving the posted buffer in the metadata table; from
\* then on the buffer is never returned by receive(), whatever the device
\* writes into the descriptor, and it leaves the table only by being
\* released: when a later post overwrites the slot or when the ring is
\* dropped.
C33_SkippedSlotStranded ==
    [][/\ (rx_next' # rx_next /\ rx_ret'.ga /\ 0 \notin rx_ret'.desc.w2) =>
             /\ rx'.base.mirror_head = (rx.base.mirror_head + 1) % RingN
             /\ rx_ret'.idx = rx.base.mirror_head
             /\ rx_ret'.pkt = None
             /\ rx_delivered' = rx_delivered
             /\ rx.mete_ls[rx_ret'.idx] # None
             /\ rx'.mete_ls[rx_ret'.idx] = rx.mete_ls[rx_ret'.idx]
             /\ rx.mete_ls[rx_ret'.idx] \in RxStranded'
       /\ \A p \in RxStranded :
             /\ \A i \in 1 .. Len(rx_delivered') : rx_delivered'[i] # p
             /\ p \in RxStranded' \/ p \in rx_freed'
             /\ (p \notin RxStranded') =>
                   \/ rx_pc' = "released"
                   \/ /\ rx_next' # rx_next
                      /\ rx_ret'.posted
                      /\ rx.mete_ls[rx_ret'.slot] = p
       /\ \A p \in rx_freed :
             /\ p \in rx_freed'
             /\ \A i \in 1 .. Len(rx_delivered') : rx_delivered'[i] # p]_vars

\* C33 witness: a buffer is stranded at a slot whose Descriptor-Done bit has
\* been set since, receive() has been called again and has returned a later
\* buffer
C33_Witness ==
    \E i \in Slots :
        /\ rx.mete_ls[i] \in RxStranded
        /\ 0 \in rx.base.desc_table[i].w2
        /\ rx_ret.called
        /\ rx_ret.pkt # None
        /\ rx_ret.pkt > rx.mete_ls[i]

\* C34: a transmit() that returns the ring-full error reclaimed no slot and
\* left the ring as it was: the consumer mirror, the registers, the
\* descriptor table and the metadata table are unchanged; and a call that
\* reclaims a slot succeeds.
C34_RingFullChangesNothing ==
    [][(tx_next' # tx_next /\ tx_pc' = "live") =>
          /\ ~tx_ret'.ok =>
                /\ ~tx_ret'.ga
                /\ tx_ret'.reclaimed = None
                /\ tx'.base.mirror_head = tx.base.mirror_head
                /\ tx'.base.mirror_tail = tx.base.mirror_tail
                /\ tx_io' = tx_io
                /\ tx'.base.desc_table = tx.base.desc_table
                /\ tx'.meta_ls = tx.meta_ls
                /\ tx' = tx
          /\ tx_ret'.ga => tx_ret'.ok]_vars

\* C34 witness: transmit() was refused on a full ring whose slots had been
\* reclaimed and posted again before, the device having completed nothing
\* since
C34_Witness ==
    /\ tx_pc = "live"
    /\ tx_ret.called
    /\ ~tx_ret.ok
    /\ ~tx_ret.ga
    /\ tx.base.mirror_head # 0
    /\ tx_io[TDH] = tx.base.mirror_head
    /\ (tx_io[TDT] + 1) % RingN = tx.base.mirror_head

\* C35: a status read of wait_for_negotiate that ends with the MDIC error
\* bit counts as one attempt that did not see the negotiation complete: the
\* bring-up goes on to the next poll, or fails with NoPhyLink when it was the
\* 500th attempt; wait_for_negotiate never returns PhyAccessError.
C35_ReadErrorIsNotComplete ==
    /\ [][(/\ Running("wait_for_negotiate")
            /\ open_pc = "neg_poll"
            /\ 30 \in mac.mdic
            /\ 28 \notin mac.mdic
            /\ (open_pc' # open_pc \/ polls' # polls)) =>
              /\ polls' = polls + 1
              /\ open_step' = open_step
              /\ IF polls' < NEGOTIATE_TRIES
                 THEN open_pc' = "sleep" /\ open_err' = "none"
                 ELSE open_pc' = "failed" /\ open_err' = "NoPhyLink"]_vars
    /\ [](BringUp[open_step] = "wait_for_negotiate" =>
            open_err \in {"none", "NoPhyLink"})

\* C35 witness: wait_for_negotiate failed with NoPhyLink at its 500th poll,
\* whose status read ended with the MDIC error bit
C35_Witness ==
    /\ BringUp[open_step] = "wait_for_negotiate"
    /\ open_pc = "failed"
    /\ open_err = "NoPhyLink"
    /\ polls = NEGOTIATE_TRIES
    /\ 30 \in mac.mdic
    /\ 28 \notin mac.mdic

\* C36: unlock() needs no guard.  A context that holds none can call it: the
\* flag is cleared while the holders keep their guards; a lock() that then
\* swaps the clear flag acquires although another guard is live, so two
\* contexts hold guards at once; and the drop of either guard clears the
\* flag whoever else still holds one.
C36_UnlockWithoutGuard ==
    /\ [][\A c \in Ctx :
            MutexUnlock(c) =>
                /\ ~mtx'.inner
                /\ mtx'.data = mtx.data
                /\ Holders' = Holders]_vars
    /\ [](\A c \in Ctx : mtx_pc[c] = "idle" => ENABLED MutexUnlock(c))
    /\ [][\A c \in Ctx :
            (MutexLock(c) /\ ~mtx.inner) =>
                /\ mtx_pc'[c] = "holding"
                /\ Holders' = Holders \cup {c}]_vars
    /\ [][\A c \in Ctx :
            MutexGuardDrop(c) =>
                /\ ~mtx'.inner
                /\ Holders' = Holders \ {c}]_vars

\* C36 witness: two contexts hold guards at once, one of them has written
\* the protected value, and the flag is set
C36_Witness ==
    /\ Cardinality(Holders) = 2
    /\ \E c \in Holders : mtx_pc[c] = "used"
    /\ \E c \in Ctx : mtx_pc[c] = "idle"
    /\ mtx.inner

\* the contexts inside lock() while they hold a guard
Relocking == {c \in Ctx : mtx_pc[c] = "relocking"}

\* C37: the mutex is not reentrant.  A lock() by a context that holds a
\* guard never acquires: each of its swaps finds the flag set, it stays in
\* the loop for ever while it keeps swapping, and no other context acquires
\* from then on.
C37_NotReentrant ==
    /\ [][\A c \in Ctx :
            (MutexLockAgain(c) \/ MutexLockAgainSpin(c)) =>
                /\ mtx.inner
                /\ mtx'.inner
                /\ mtx_pc'[c] = "relocking"]_vars
    /\ [][\A c \in Relocking :
            /\ c \in Relocking'
            /\ Holders' = {}]_vars
    /\ [](Relocking # {} => mtx.inner /\ Holders = {})
    /\ \A c \in Ctx :
          \/ [](c \notin Relocking)
          \/ []<>(<<MutexLockAgainSpin(c)>>_vars)

\* C37 witness: a context that had used its guard is in lock() again and
\* has executed several swaps, while the other contexts spin
C37_Witness ==
    \E c \in Ctx :
        /\ mtx_pc[c] = "relocking"
        /\ mtx_swaps[c] = 1
        /\ mtx.data = 1
        /\ \A o \in Ctx \ {c} : mtx_pc[o] = "spinning"

\* the slots of the transmit ring posted and not yet reported back
TxWindow ==
    LET n == desc_table_len(tx.base)
        k == (get_tail(tx.base, tx_io) - tx.base.mirror_head) % n
    IN  {(tx.base.mirror_head + j) % n : j \in 0 .. (k - 1)}

\* C38: FIFO order.  In both rings a successful add_desc posts at the tail
\* slot and moves the tail to the next slot of the cycle, and get_available
\* reports the slot at the consumer mirror, which is the slot posted longest
\* ago among those outstanding, and moves the mirror to the next slot of the
\* cycle; so the buffer receive() returns was posted before every other
\* outstanding buffer and after every buffer returned earlier, and the
\* buffer transmit() reclaims was submitted before every other buffer the
\* ring holds.
C38_FifoOrder ==
    /\ [][(rx_next' # rx_next /\ rx_ret'.posted) =>
             /\ rx_ret'.slot = get_tail(rx.base, rx_io)
             /\ get_tail(rx'.base, rx_io') = (rx_ret'.slot + 1) % RingN]_vars
    /\ [][(rx_next' # rx_next /\ rx_ret'.ga) =>
             /\ rx_ret'.idx = rx.base.mirror_head
             /\ rx'.base.mirror_head = (rx_ret'.idx + 1) % RingN
             /\ rx_ret'.idx \in RxWindow
             /\ \A i \in RxWindow \ {rx_ret'.idx} :
                   rx.mete_ls[rx_ret'.idx] < rx.mete_ls[i]]_vars
    /\ [][(rx_next' # rx_next /\ rx_ret'.pkt # None) =>
             /\ rx_ret'.pkt = rx.mete_ls[rx.base.mirror_head]
             /\ rx_delivered' = Append(rx_delivered, rx_ret'.pkt)
             /\ \A i \in 1 .. Len(rx_delivered) :
                   rx_delivered[i] < rx_ret'.pkt]_vars
    /\ [][(tx_next' # tx_next /\ tx_ret'.ok) =>
             /\ tx_ret'.slot = get_tail(tx.base, tx_io)
             /\ get_tail(tx'.base, tx_io') = (tx_ret'.slot + 1) % RingN
             /\ tx'.meta_ls[tx_ret'.slot] = tx_next']_vars
    /\ [][(tx_next' # tx_next /\ tx_ret'.ga) =>
             /\ tx_ret'.idx = tx.base.mirror_head
             /\ tx'.base.mirror_head = (tx_ret'.idx + 1) % RingN
             /\ tx_ret'.idx \in TxWindow]_vars
    /\ [][(tx_next' # tx_next /\ tx_ret'.reclaimed # None) =>
             /\ tx_ret'.reclaimed = tx.meta_ls[tx.base.mirror_head]
             /\ \A q \in Held(tx.meta_ls) \ {tx_ret'.reclaimed} :
                   tx_ret'.reclaimed < q]_vars

\* C38 witness: more buffers than the ring has slots have come back, in
\* either direction, so the slot cycle has wrapped
C38_Witness ==
    \/ /\ Len(rx_delivered) > RingN
       /\ rx_ret.pkt = rx_delivered[Len(rx_delivered)]
    \/ /\ tx_ret.called
       /\ tx_ret.reclaimed > RingN

\* base and length registers of the receive / transmit queue hold the
\* descriptor table
RxProgrammed ==
    /\ rx_io[RDBAL] = desc_table_base(rx.base)
    /\ rx_io[RDBAH] = 0
    /\ rx_io[RDLEN] = RingN * 16

TxProgrammed ==
    /\ tx_io[TDBAL] = desc_table_base(tx.base)
    /\ tx_io[TDBAH] = 0
    /\ tx_io[TDLEN] = RingN * 16

\* C39: the constructors program the queue in this order.  The first write
\* clears the enable bit; base and length are written while it is clear;
\* head, tail and both mirrors are zeroed after base and length hold the
\* table and while the enable bit is still clear; the enable bit is set
\* last, on a programmed and zeroed queue; the constructor returns from a
\* poll that read the enable bit as set; and the tail register takes a
\* value other than zero only in a returned ring whose queue is enabled.
C39_ProgrammingOrder ==
    /\ [][(rx_pc = "unborn" /\ rx_pc' # "unborn") =>
             /\ rx_pc' = "RXDCTL_clear"
             /\ RXDCTL_ENABLE(rx_io'[RXDCTL]) = 0]_vars
    /\ [][(rx_pc' \in {"RDBAL", "RDBAH", "RDLEN"} /\ rx_pc' # rx_pc) =>
             /\ RXDCTL_ENABLE(rx_io[RXDCTL]) = 0
             /\ RXDCTL_ENABLE(rx_io'[RXDCTL]) = 0
             /\ (rx_pc' = "RDLEN") => RxProgrammed']_vars
    /\ [][(rx_pc' = "init_tail_head" /\ rx_pc' # rx_pc) =>
             /\ RxProgrammed
             /\ RXDCTL_ENABLE(rx_io[RXDCTL]) = 0
             /\ RXDCTL_ENABLE(rx_io'[RXDCTL]) = 0
             /\ rx_io'[RDH] = 0 /\ rx_io'[RDT] = 0
             /\ rx'.base.mirror_head = 0 /\ rx'.base.mirror_tail = 0]_vars
    /\ [][(rx_pc' = "enabling" /\ rx_pc' # rx_pc) =>
             /\ RxProgrammed /\ RxProgrammed'
             /\ rx_io[RDH] = 0 /\ rx_io[RDT] = 0
             /\ rx.base.mirror_head = 0 /\ rx.base.mirror_tail = 0
             /\ RXDCTL_ENABLE(rx_io[RXDCTL]) = 0
             /\ RXDCTL_ENABLE(rx_io'[RXDCTL]) = 1
             /\ rx_io' = RxRing_new_program(rx.base, rx_io, rx.pkt_size).io]_vars
    /\ [][(rx_pc' = "live" /\ rx_pc # "live") =>
             /\ rx_pc = "enabling"
             /\ enable_poll(xdctl_read(rx_io, RXDCTL, rx_hw))
             /\ rx_hw.enabled]_vars
    /\ [][(rx_io'[RDT] # rx_io[RDT] /\ rx_io'[RDT] # 0) =>
             /\ rx_pc = "live"
             /\ rx_hw.enabled
             /\ RXDCTL_ENABLE(rx_io[RXDCTL]) = 1]_vars
    /\ [][(tx_pc = "unborn" /\ tx_pc' # "unborn") =>
             /\ tx_pc' = "TXDCTL_clear"
             /\ TXDCTL_ENABLE(tx_io'[TXDCTL]) = 0]_vars
    /\ [][(tx_pc' \in {"TDBAL", "TDBAH", "TDLEN"} /\ tx_pc' # tx_pc) =>
             /\ TXDCTL_ENABLE(tx_io[TXDCTL]) = 0
             /\ TXDCTL_ENABLE(tx_io'[TXDCTL]) = 0
             /\ (tx_pc' = "TDLEN") => TxProgrammed']_vars
    /\ [][(tx_pc' = "init_tail_head" /\ tx_pc' # tx_pc) =>
             /\ TxProgrammed
             /\ TXDCTL_ENABLE(tx_io[TXDCTL]) = 0
             /\ TXDCTL_ENABLE(tx_io'[TXDCTL]) = 0
             /\ tx_io'[TDH] = 0 /\ tx_io'[TDT] = 0
             /\ tx'.base.mirror_head = 0 /\ tx'.base.mirror_tail = 0]_vars
    /\ [][(tx_pc' = "enabling" /\ tx_pc' # tx_pc) =>
             /\ TxProgrammed /\ TxProgrammed'
             /\ tx_io[TDH] = 0 /\ tx_io[TDT] = 0
             /\ tx.base.mirror_head = 0 /\ tx.base.mirror_tail = 0
             /\ TXDCTL_ENABLE(tx_io[TXDCTL]) = 0
             /\ TXDCTL_ENABLE(tx_io'[TXDCTL]) = 1
             /\ tx_io' = TxRing_new_program(tx.base, tx_io).io]_vars
    /\ [][(tx_pc' = "live" /\ tx_pc # "live") =>
             /\ tx_pc = "enabling"
             /\ enable_poll(xdctl_read(tx_io, TXDCTL, tx_hw))
             /\ tx_hw.enabled]_vars
    /\ [][(tx_io'[TDT] # tx_io[TDT] /\ tx_io'[TDT] # 0) =>
             /\ tx_pc = "live"
             /\ tx_hw.enabled
             /\ TXDCTL_ENABLE(tx_io[TXDCTL]) = 1]_vars

\* C39 witness: both constructors have returned, the base and length
\* registers hold the descriptor tables, and one descriptor has been posted
\* on each ring
C39_Witness ==
    /\ rx_pc = "live" /\ tx_pc = "live"
    /\ rx_io[RDT] = 1 /\ tx_io[TDT] = 1
    /\ rx_next = 1 /\ tx_next = 1
    /\ RxProgrammed /\ TxProgrammed

\* the two read-modify-write steps of the bring-up
ControlSteps == {"power_up", "enable_auto_negotiation"}

\* C40: power_up writes PHY_CONTROL with the value it read less bit 11, and
\* enable_auto_negotiation with the value it read plus bits 12 and 9, every
\* other bit as read; a read that ends with the error flag makes the step
\* return the error without writing, and no MDI transaction follows.
C40_ReadModifyWrite ==
    /\ [][\A f \in ControlSteps :
            (Running(f) /\ open_pc = "write" /\ open_pc' = "write_poll") =>
                /\ mdic_poll(mac.mdic) = "Ok"
                /\ FieldNum(mac.mdic, 26, 2) = 2
                /\ FieldNum(mac'.mdic, 26, 2) = 1
                /\ FieldNum(mac'.mdic, 16, 5) = PHY_CONTROL
                /\ FieldNum(mac'.mdic, 21, 5) = phy.addr
                /\ (f = "power_up") =>
                      /\ 11 \notin MDIC_DATA(mac'.mdic)
                      /\ MDIC_DATA(mac'.mdic) \ {11} = MDIC_DATA(mac.mdic) \ {11}
                /\ (f = "enable_auto_negotiation") =>
                      /\ {12, 9} \subseteq MDIC_DATA(mac'.mdic)
                      /\ MDIC_DATA(mac'.mdic) \ {12, 9}
                            = MDIC_DATA(mac.mdic) \ {12, 9}]_vars
    /\ [][\A f \in ControlSteps :
            (Running(f) /\ open_pc = "read_poll" /\ open_pc' # "read_poll"
               /\ mdic_poll(mac.mdic) = "Err") =>
                /\ open_pc' = "failed"
                /\ open_err' = "PhyAccessError"
                /\ mac' = mac
                /\ phy_dev' = phy_dev]_vars
    /\ [][\A f \in ControlSteps :
            (Running(f) /\ open_pc = "read_poll" /\ open_pc' = "write") =>
                mdic_poll(mac.mdic) = "Ok"]_vars
    /\ [][(open_pc = "failed") =>
             /\ open_pc' = "failed"
             /\ mac'.mdic = mac.mdic
             /\ phy_dev'[PHY_CONTROL] = phy_dev[PHY_CONTROL]]_vars

\* C40 witness: the bring-up has passed both steps on a chip whose control
\* register held bit 11 and other bits, and the register now holds the
\* other bits and bits 12 and 9 without bit 11
C40_Witness ==
    /\ open_step > 5
    /\ phy.addr = 1
    /\ phy_dev[PHY_CONTROL] = {6, 9, 12}

====
